---- MODULE Spec2Model ----
(***************************************************************************)
(* macbash: loading and merging of rules (internal/rules), rule-driven     *)
(* scanning of shell scripts (internal/scanner), the fix engine with       *)
(* post-fix validation (internal/fixer) and the command that drives them   *)
(* (internal/cli).                                                         *)
(*                                                                         *)
(* Text is a sequence of one-character strings.  A regular expression is   *)
(* modelled for the literal fragment of Go's regexp syntax: a sequence of  *)
(* ordinary characters, optionally anchored by a leading "^".  A pattern   *)
(* holding "[" stands for an unterminated character class, which does not  *)
(* compile.                                                                *)
(***************************************************************************)
EXTENDS Integers, Sequences, FiniteSets, TLC

VARIABLES
    disk,          \* path -> content of the file at that path
    disk0,         \* the disk as it was when the command started
    args,          \* the input paths of the command line
    ruleSet,       \* the rules.RuleSet handed to scanner.New
    builtinFiles,  \* the embedded builtin/*.yaml files, in directory order
    configFile,    \* -c: <<>> when not given, else <<the file at that path>>
    threads,       \* the goroutines that call ScanFile on one Scanner, each with
                   \* the locals of its call; <<>> when the command scans alone
    write,         \* -w
    outputPath,    \* -o, <<>> when not given
    dryRun,        \* --dry-run
    minSeverity,   \* --severity
    compiled,      \* Scanner.compiled: rule ID -> index into Scanner.rules
    pc,            \* position of the command
    fileIdx,       \* index into args of the file being processed
    fileLines,     \* the lines bufio.Scanner yields for the file being read
    lineNum,       \* ScanFile's lineNum
    matches,       \* ScanFile's local matches
    allMatches,    \* ScanFiles' allMatches, then runCheck's filtered matches
    scanResults,   \* the value each ScanFile call returned, in call order
    fixerCompiled, \* Fixer.compiled: rule ID -> pattern
    fixedCount,    \* runFix's fixedCount
    unfixedCount,  \* runFix's unfixedCount
    results,       \* the Result each FixFile call returned, in call order
    writes,        \* the writeOutput calls made, in call order
    exitCode,      \* the exit code of the process, -1 while it runs
    err            \* the error the command ended with ("" when none)

runVars == <<disk0, args, write, outputPath, dryRun, minSeverity, builtinFiles,
            configFile, threads>>
inputVars == <<runVars, ruleSet>>
scanVars == <<compiled, fileLines, lineNum, matches, scanResults>>
fixVars == <<fixerCompiled, fixedCount, unfixedCount, results, writes>>
vars == <<disk, disk0, args, ruleSet, builtinFiles, configFile, threads, write, outputPath, dryRun, minSeverity,
          compiled, pc, fileIdx, fileLines, lineNum, matches, allMatches,
          scanResults, fixerCompiled, fixedCount, unfixedCount, results, writes,
          exitCode, err>>

(***************************************************************************)
(* Bounds of the model.                                                    *)
(***************************************************************************)
MaxLines == 2
MaxRules == 2
MaxMatches == 2

(***************************************************************************)
(* Strings.                                                                *)
(***************************************************************************)
Empty == <<>>

IsSpace(c) == c \in {" ", "\t", "\n"}

HasPrefix(s, p) ==
    /\ Len(p) <= Len(s)
    /\ \A k \in 1..Len(p) : s[k] = p[k]

RECURSIVE TrimLeft(_)
TrimLeft(s) ==
    IF s # Empty /\ IsSpace(s[1]) THEN TrimLeft(Tail(s)) ELSE s

RECURSIVE TrimRight(_)
TrimRight(s) ==
    IF s # Empty /\ IsSpace(s[Len(s)])
    THEN TrimRight(SubSeq(s, 1, Len(s) - 1))
    ELSE s

TrimSpace(s) == TrimRight(TrimLeft(s))

\* bufio.ScanLines: a line ends at each newline, and a last unterminated
\* line ends at the end of the text when it is not empty; LineEnds holds the
\* index of the newline, or of the end of the text, for each line.
LineEnds(content) ==
    {i \in 1..Len(content) : content[i] = "\n"}
    \cup (IF content # Empty /\ content[Len(content)] # "\n"
          THEN {Len(content) + 1} ELSE {})

\* the k-th smallest member of a set of numbers, 0 for k = 0
Nth(S, k) ==
    IF k = 0 THEN 0 ELSE CHOOSE i \in S : Cardinality({j \in S : j < i}) = k - 1

LinesBetween(content, ends) ==
    [k \in 1..Cardinality(ends) |->
        SubSeq(content, Nth(ends, k - 1) + 1, Nth(ends, k) - 1)]

ScanLines(content) == LinesBetween(content, LineEnds(content))

\* strings.Join(lines, sep)
RECURSIVE Join(_, _)
Join(lines, sep) ==
    IF lines = <<>> THEN Empty
    ELSE IF Len(lines) = 1 THEN lines[1]
    ELSE lines[1] \o sep \o Join(Tail(lines), sep)

RECURSIVE Concat(_)
Concat(seqs) == IF seqs = <<>> THEN <<>> ELSE seqs[1] \o Concat(Tail(seqs))

Perms(S) ==
    {f \in [1..Cardinality(S) -> S] : \A i, j \in DOMAIN f : i # j => f[i] # f[j]}

(***************************************************************************)
(* Regular expressions (regexp.Compile, FindStringIndex, MatchString,      *)
(* ReplaceAllString) on the literal fragment.                              *)
(***************************************************************************)
NoLoc == <<>>

Compiles(p) == \A k \in 1..Len(p) : p[k] # "["

Anchored(p) == p # Empty /\ p[1] = "^"

Literal(p) == IF Anchored(p) THEN Tail(p) ELSE p

\* the literal lit occurs in s at the 0-based offset i
OccursAt(s, i, lit) ==
    /\ i + Len(lit) <= Len(s)
    /\ \A k \in 1..Len(lit) : s[i + k] = lit[k]

MatchStarts(p, s) ==
    {i \in (IF Anchored(p) THEN {0} ELSE 0..Len(s)) : OccursAt(s, i, Literal(p))}

Least(S) == CHOOSE x \in S : \A y \in S : x <= y

\* mutant of FindStringIndex: the rightmost occurrence
FindStringIndexRightmost(p, s) ==
    IF MatchStarts(p, s) = {} THEN NoLoc
    ELSE <<-Least({-i : i \in MatchStarts(p, s)}),
           -Least({-i : i \in MatchStarts(p, s)}) + Len(Literal(p))>>

\* [start, end) of the leftmost occurrence, 0-based, or NoLoc
FindStringIndex(p, s) ==
    IF MatchStarts(p, s) = {} THEN NoLoc
    ELSE <<Least(MatchStarts(p, s)), Least(MatchStarts(p, s)) + Len(Literal(p))>>

MatchString(p, s) == MatchStarts(p, s) # {}

RECURSIVE ReplaceFrom(_, _, _, _)
ReplaceFrom(p, s, tmpl, i) ==
    IF i >= Len(s) THEN Empty
    ELSE IF i \in MatchStarts(p, s) /\ Literal(p) # Empty
         THEN tmpl \o ReplaceFrom(p, s, tmpl, i + Len(Literal(p)))
         ELSE <<s[i + 1]>> \o ReplaceFrom(p, s, tmpl, i + 1)

ReplaceAllString(p, s, tmpl) == ReplaceFrom(p, s, tmpl, 0)

(***************************************************************************)
(* Rules (internal/rules/types.go).                                        *)
(***************************************************************************)
SeverityError == "error"
SeverityWarning == "warning"
SeverityInfo == "info"

FixReplace == "replace"
FixSuggest == "suggest"
FixFunction == "function"
FixTransform == "transform"

Rule(id, sev, pat, neg, shebang, fixType, tmpl) ==
    [ID |-> id, Name |-> id, Severity |-> sev, Pattern |-> pat,
     NegativePattern |-> neg, ShebangMatch |-> shebang,
     FixType |-> fixType, FixTemplate |-> tmpl]

\* the subsequence of pool at the indices in S, in pool order
RECURSIVE Pick(_, _, _)
Pick(pool, S, i) ==
    IF i > Len(pool) THEN <<>>
    ELSE (IF i \in S THEN <<pool[i]>> ELSE <<>>) \o Pick(pool, S, i + 1)

\* every sequence over pool of length 0..n
SeqsUpTo(pool, n) == UNION {[1..k -> pool] : k \in 0..n}

\* the content of a file made of these lines, each ended by a newline
FileOf(lines) == Concat([k \in DOMAIN lines |-> lines[k] \o <<"\n">>])

(***************************************************************************)
(* Inputs of the scanning specification.                                   *)
(***************************************************************************)
EchoRule ==
    Rule("echo-escape", SeverityWarning,
         <<"e", "c", "h", "o", " ", "-", "e">>, Empty, Empty, FixSuggest, Empty)

\* "rp" stands for realpath: flagged unless guarded by "command -v"
RealpathRule ==
    Rule("realpath-unchecked", SeverityWarning,
         <<"r", "p", " ">>, <<"-", "v", " ", "r", "p">>, Empty, FixSuggest, Empty)

\* "src" stands for source, a bashism flagged in /bin/sh scripts only
SourceRule ==
    Rule("posix-source", SeverityError,
         <<"s", "r", "c", " ">>, Empty, <<"^", "#", "!", "s", "h">>, FixSuggest, Empty)

\* a rule whose pattern is anchored to start-of-line comment syntax
ShebangRule ==
    Rule("bash-shebang", SeverityInfo,
         <<"^", "#", "!", "b", "a", "s", "h">>, Empty, Empty, FixSuggest, Empty)

BadRule ==
    Rule("bad-rule", SeverityWarning,
         <<"[", "b", "a", "d">>, Empty, Empty, FixSuggest, Empty)

BadNegativeRule ==
    Rule("bad-negative", SeverityWarning,
         <<"e", "c", "h", "o", " ", "-", "e">>, <<"[", "b", "a", "d">>, Empty,
         FixSuggest, Empty)

ScanRulePool ==
    <<EchoRule, RealpathRule, SourceRule, ShebangRule, BadRule, BadNegativeRule>>

ScanLinePool ==
    { <<"#", "!", "s", "h">>,
      <<"#", "!", "b", "a", "s", "h">>,
      <<" ", "#", " ", "e", "c", "h", "o", " ", "-", "e">>,
      <<"c", "a", "t", " ", "<", "<", "E", "O", "F">>,
      <<"E", "O", "F">>,
      <<"r", "p", " ", "x", ";", " ", "s", "r", "c", " ", "x", ";", " ",
        "e", "c", "h", "o", " ", "-", "e", " ", "E", "O", "F">>,
      <<"x", " ", "-", "v", " ", "r", "p", " ", ";", " ",
        "e", "c", "h", "o", " ", "-", "e">>,
      <<" ">> }

ScanPath == <<"a.sh">>

(***************************************************************************)
(* Scanner (internal/scanner/scanner.go).                                  *)
(***************************************************************************)
\* New: one compiledRule per rule ID, the last rule carrying an ID wins
NewCompiled(rs) ==
    [id \in {rs[i].ID : i \in DOMAIN rs} |->
        CHOOSE i \in DOMAIN rs :
            /\ rs[i].ID = id
            /\ \A j \in DOMAIN rs : rs[j].ID = id => j <= i]

\* mutant of NewFails: only the primary patterns are compiled by New
NewFailsOnPrimaryOnly(rs) == \E i \in DOMAIN rs : ~Compiles(rs[i].Pattern)

\* New returns an error: a primary or exclusion pattern does not compile
NewFails(rs) ==
    \E i \in DOMAIN rs :
        \/ ~Compiles(rs[i].Pattern)
        \/ rs[i].NegativePattern # Empty /\ ~Compiles(rs[i].NegativePattern)

NewMatch(rule, path, n, line, loc) ==
    [Rule |-> rule, File |-> path, Line |-> n, Column |-> loc[1] + 1,
     Content |-> line, MatchedStr |-> SubSeq(line, loc[1] + 1, loc[2]),
     FixedStr |-> IF rule.FixType = FixReplace /\ rule.FixTemplate # Empty
                  THEN ReplaceAllString(rule.Pattern, line, rule.FixTemplate)
                  ELSE Empty]

\* mutant of RuleMatch: the exclusion pattern is not consulted
RuleMatchNoVeto(rule, path, n, line) ==
    LET loc == FindStringIndex(rule.Pattern, line)
    IN IF HasPrefix(TrimSpace(line), <<"#">>) /\ ~HasPrefix(rule.Pattern, <<"^", "#">>)
       THEN <<>>
       ELSE IF loc = NoLoc THEN <<>>
       ELSE <<NewMatch(rule, path, n, line, loc)>>

\* mutant of RuleMatch: comment lines are evaluated like any other line
RuleMatchNoCommentSkip(rule, path, n, line) ==
    LET loc == FindStringIndex(rule.Pattern, line)
    IN IF loc = NoLoc THEN <<>>
       ELSE IF rule.NegativePattern # Empty /\ MatchString(rule.NegativePattern, line)
       THEN <<>>
       ELSE <<NewMatch(rule, path, n, line, loc)>>

\* the body of ScanFile's loop over s.compiled for one rule and one line:
\* the Matches it appends
RuleMatch(rule, path, n, line) ==
    LET loc == FindStringIndex(rule.Pattern, line)
    IN IF HasPrefix(TrimSpace(line), <<"#">>) /\ ~HasPrefix(rule.Pattern, <<"^", "#">>)
       THEN <<>>
       ELSE IF loc = NoLoc THEN <<>>
       ELSE IF rule.NegativePattern # Empty /\ MatchString(rule.NegativePattern, line)
       THEN <<>>
       ELSE <<NewMatch(rule, path, n, line, loc)>>

\* ScanFile's loop over s.compiled for one line, the map's keys visited in
\* the given order
RECURSIVE ScanRules(_, _, _, _, _, _, _)
ScanRules(rs, comp, order, k, path, n, line) ==
    IF k > Len(order) THEN <<>>
    ELSE RuleMatch(rs[comp[order[k]]], path, n, line)
         \o ScanRules(rs, comp, order, k + 1, path, n, line)

(***************************************************************************)
(* Fixer (internal/fixer/fixer.go).                                        *)
(***************************************************************************)
Letters ==
    {"a", "b", "c", "d", "e", "f", "g", "h", "i", "j", "k", "l", "m", "n", "o", "p",
     "q", "r", "s", "t", "u", "v", "w", "x", "y", "z", "A", "B", "C", "D", "E", "F",
     "G", "H", "I", "J", "K", "L", "M", "N", "O", "P", "Q", "R", "S", "T", "U", "V",
     "W", "X", "Y", "Z"}

Digits == <<"0", "1", "2", "3", "4", "5", "6", "7", "8", "9">>

IsDigit(c) == \E d \in DOMAIN Digits : Digits[d] = c

IsWordChar(c) == c \in Letters \/ IsDigit(c) \/ c = "_"

\* the number of characters of s from the 1-based index k on that lie in set
RECURSIVE RunIn(_, _, _)
RunIn(s, k, set) ==
    IF k <= Len(s) /\ s[k] \in set THEN 1 + RunIn(s, k + 1, set) ELSE 0

RECURSIVE WordRun(_, _)
WordRun(s, k) == IF k <= Len(s) /\ IsWordChar(s[k]) THEN 1 + WordRun(s, k + 1) ELSE 0

\* the 1-based index of the first c in s at or after k, 0 when there is none
RECURSIVE IndexFrom(_, _, _)
IndexFrom(s, k, c) ==
    IF k > Len(s) THEN 0 ELSE IF s[k] = c THEN k ELSE IndexFrom(s, k + 1, c)

\* strings.Contains
Contains(s, sub) == \E i \in 0..Len(s) : OccursAt(s, i, sub)

\* strings.ReplaceAll for a non-empty old
RECURSIVE StrReplaceFrom(_, _, _, _)
StrReplaceFrom(s, old, new, i) ==
    IF i >= Len(s) THEN Empty
    ELSE IF OccursAt(s, i, old)
         THEN new \o StrReplaceFrom(s, old, new, i + Len(old))
         ELSE <<s[i + 1]>> \o StrReplaceFrom(s, old, new, i + 1)

StrReplaceAll(s, old, new) == StrReplaceFrom(s, old, new, 0)

\* strings.Replace(s, old, new, 1) for a one-character old
ReplaceFirst(s, old, new) ==
    IF IndexFrom(s, 1, old) = 0 THEN s
    ELSE SubSeq(s, 1, IndexFrom(s, 1, old) - 1) \o new
         \o SubSeq(s, IndexFrom(s, 1, old) + 1, Len(s))

Whitespace == {" ", "\t", "\n"}

NoGrep == <<>>

\* The match of (grep\s+)(-[a-zA-Z]*P[a-zA-Z]*)(\s+)q([^q]*)q that starts at
\* the 0-based offset i of line, as <<end, prefix, flags, space, pattern>>,
\* or NoGrep.  The runs of blanks and of letters are followed by a character
\* outside them, so each group can only be the whole run: the "-" is at
\* dash, fl letters follow it, the quotes are at open and close.
GrepGroups(line, i, q, dash, fl, open, close) ==
    IF /\ OccursAt(line, i, <<"g", "r", "e", "p">>)
       /\ dash > i + 5
       /\ dash <= Len(line) /\ line[dash] = "-"
       /\ \E k \in (dash + 1)..(dash + fl) : line[k] = "P"
       /\ open > dash + 1 + fl
       /\ open <= Len(line) /\ line[open] = q
       /\ close # 0
    THEN << close,
            SubSeq(line, i + 1, dash - 1),
            SubSeq(line, dash, dash + fl),
            SubSeq(line, dash + 1 + fl, open - 1),
            SubSeq(line, open + 1, close - 1) >>
    ELSE NoGrep

GrepFromOpen(line, i, q, dash, fl, open) ==
    GrepGroups(line, i, q, dash, fl, open, IndexFrom(line, open + 1, q))

GrepFromFlags(line, i, q, dash, fl) ==
    GrepFromOpen(line, i, q, dash, fl,
                 dash + 1 + fl + RunIn(line, dash + 1 + fl, Whitespace))

GrepFromDash(line, i, q, dash) ==
    GrepFromFlags(line, i, q, dash, RunIn(line, dash + 1, Letters))

GrepMatchAt(line, i, q) ==
    GrepFromDash(line, i, q, i + 5 + RunIn(line, i + 5, Whitespace))

GrepStarts(line, q) == {i \in 0..Len(line) : GrepMatchAt(line, i, q) # NoGrep}

\* FindStringSubmatch: the leftmost match, or NoGrep
GrepFind(line, q) ==
    IF GrepStarts(line, q) = {} THEN NoGrep
    ELSE GrepMatchAt(line, Least(GrepStarts(line, q)), q)

RECURSIVE ParseNum(_, _, _)
ParseNum(name, k, acc) ==
    IF k > Len(name) THEN acc
    ELSE IF ~IsDigit(name[k]) THEN -1
    ELSE ParseNum(name, k + 1,
                  acc * 10 + (CHOOSE d \in DOMAIN Digits : Digits[d] = name[k]) - 1)

\* the number a group name stands for, -1 when it is not a number
GroupNum(name) ==
    IF name[1] = "0" /\ Len(name) > 1 THEN -1 ELSE ParseNum(name, 1, 0)

\* the text of group num; groups[n + 1] is the text of group n, and the grep
\* patterns have no named group
GroupText(groups, num) ==
    IF num >= 0 /\ num < Len(groups) THEN groups[num + 1] ELSE Empty

\* Regexp.expand: the replacement template with $name, ${name} and $$
\* substituted
RECURSIVE Expand(_, _, _)
\* the reference at k whose name is the n characters from the index from
ExpandRef(tmpl, k, groups, brace, from, n) ==
    IF n = 0 \/ (brace /\ ~(from + n <= Len(tmpl) /\ tmpl[from + n] = "}"))
    THEN <<"$">> \o Expand(tmpl, k + 1, groups)
    ELSE GroupText(groups, GroupNum(SubSeq(tmpl, from, from + n - 1)))
         \o Expand(tmpl, IF brace THEN from + n + 1 ELSE from + n, groups)

ExpandName(tmpl, k, groups, brace, from) ==
    ExpandRef(tmpl, k, groups, brace, from, WordRun(tmpl, from))

ExpandBrace(tmpl, k, groups, brace) ==
    ExpandName(tmpl, k, groups, brace, IF brace THEN k + 2 ELSE k + 1)

Expand(tmpl, k, groups) ==
    IF k > Len(tmpl) THEN Empty
    ELSE IF tmpl[k] # "$" THEN <<tmpl[k]>> \o Expand(tmpl, k + 1, groups)
    ELSE IF k < Len(tmpl) /\ tmpl[k + 1] = "$" THEN <<"$">> \o Expand(tmpl, k + 2, groups)
    ELSE ExpandBrace(tmpl, k, groups, k < Len(tmpl) /\ tmpl[k + 1] = "{")

\* grepRe.ReplaceAllString(line, tmpl)
RECURSIVE GrepReplaceFrom(_, _, _, _)
\* g is the match that starts at the offset i, or NoGrep
GrepReplaceAt(line, q, tmpl, i, g) ==
    IF g # NoGrep
    THEN Expand(tmpl, 1, <<SubSeq(line, i + 1, g[1]), g[2], g[3], g[4], g[5]>>)
         \o GrepReplaceFrom(line, q, tmpl, g[1])
    ELSE <<line[i + 1]>> \o GrepReplaceFrom(line, q, tmpl, i + 1)

GrepReplaceFrom(line, q, tmpl, i) ==
    IF i >= Len(line) THEN Empty
    ELSE GrepReplaceAt(line, q, tmpl, i, GrepMatchAt(line, i, q))

UnfixablePatterns ==
    << <<"\\", "K">>, <<"(", "?", "=">>, <<"(", "?", "!">>, <<"(", "?", "<", "=">>,
       <<"(", "?", "<", "!">>, <<"(", "?", ":">>, <<"(", "?", "P", "<">>,
       <<"\\", "b">>, <<"\\", "B">>, <<"(", "?", "i", ")">>, <<"(", "?", "m", ")">>,
       <<"(", "?", "s", ")">> >>

HasUnfixablePCRE(pattern) ==
    \E k \in DOMAIN UnfixablePatterns : Contains(pattern, UnfixablePatterns[k])

Replacements ==
    << << <<"\\", "d">>, <<"[", "0", "-", "9", "]">> >>,
       << <<"\\", "D">>, <<"[", "^", "0", "-", "9", "]">> >>,
       << <<"\\", "w">>, <<"[", "[", ":", "a", "l", "n", "u", "m", ":", "]", "_", "]">> >>,
       << <<"\\", "W">>,
          <<"[", "^", "[", ":", "a", "l", "n", "u", "m", ":", "]", "_", "]">> >>,
       << <<"\\", "s">>, <<"[", "[", ":", "s", "p", "a", "c", "e", ":", "]", "]">> >>,
       << <<"\\", "S">>,
          <<"[", "^", "[", ":", "s", "p", "a", "c", "e", ":", "]", "]">> >> >>

RECURSIVE PcreFrom(_, _)
PcreFrom(result, k) ==
    IF k > Len(Replacements) THEN result
    ELSE PcreFrom(StrReplaceAll(result, Replacements[k][1], Replacements[k][2]), k + 1)

pcreToERE(pattern) == PcreFrom(pattern, 1)

\* mutant of Changed: a rewritten line counts as applied, changed or not
ChangedOrNot(line, result) == <<result, TRUE>>

\* a rewritten line and whether it differs from the line it was made from
Changed(line, result) == <<result, result # line>>

\* newGrep := prefix + newFlags + space + quote + erePattern + quote
NewGrep(quote, m) ==
    m[2] \o ReplaceFirst(m[3], "P", <<"E">>) \o m[4]
    \o <<quote>> \o pcreToERE(m[5]) \o <<quote>>

\* transformGrepPtoE once the submatch m was found with this quote
GrepRewrite(line, quote, m) ==
    IF HasUnfixablePCRE(m[5]) THEN <<line, FALSE>>
    ELSE Changed(line, GrepReplaceFrom(line, quote, NewGrep(quote, m), 0))

GrepDouble(line, double) ==
    IF double = NoGrep THEN <<line, FALSE>> ELSE GrepRewrite(line, "\"", double)

GrepSingle(line, single) ==
    IF single # NoGrep THEN GrepRewrite(line, "'", single)
    ELSE GrepDouble(line, GrepFind(line, "\""))

\* <<result, applied>>
transformGrepPtoE(line) == GrepSingle(line, GrepFind(line, "'"))

applyTransform(line, m) ==
    IF m.Rule.ID \in {"grep-perl-regex", "grep-only-matching-P"}
    THEN transformGrepPtoE(line)
    ELSE <<line, FALSE>>

\* the Fixer's cache of compiled patterns after getCompiledPattern(rule)
CacheAfter(cache, rule) ==
    IF rule.ID \in DOMAIN cache \/ ~Compiles(rule.Pattern) THEN cache
    ELSE [id \in DOMAIN cache \cup {rule.ID} |->
             IF id = rule.ID THEN rule.Pattern ELSE cache[id]]

\* mutant of FixOne: the template of a suggest or function rule is applied
\* like that of a replace rule
FixOneAppliesEveryType(m, fixedLine, cache) ==
    IF m.Rule.FixType = FixTransform
    THEN applyTransform(fixedLine, m)
    ELSE IF Compiles(m.Rule.Pattern)
    THEN Changed(fixedLine, ReplaceAllString(m.Rule.Pattern, fixedLine, m.Rule.FixTemplate))
    ELSE <<fixedLine, FALSE>>

\* the body of fixLine's switch for the match m: <<newResult, applied>>
FixOne(m, fixedLine, cache) ==
    IF m.Rule.FixType = FixReplace
    THEN IF m.Rule.ID \in DOMAIN cache
         THEN Changed(fixedLine,
                      ReplaceAllString(cache[m.Rule.ID], fixedLine, m.Rule.FixTemplate))
         ELSE <<fixedLine, FALSE>>
    ELSE IF m.Rule.FixType = FixTransform
    THEN applyTransform(fixedLine, m)
    ELSE <<fixedLine, FALSE>>

\* fixLine's loop from the k-th match on: the line, the fixes applied and the
\* count of the unfixed so far, and the Fixer's cache
RECURSIVE FixLineFrom(_, _, _, _, _, _)
\* mutant of FixLineNext: a Match that is not applied is not counted
FixLineNextDropsUnfixed(ms, k, fixedLine, fixes, unfixed, cache, res) ==
    IF res[2]
    THEN FixLineFrom(ms, k + 1, res[1],
                     Append(fixes, [Line |-> ms[k].Line, RuleID |-> ms[k].Rule.ID,
                                    Original |-> fixedLine, Fixed |-> res[1]]),
                     unfixed, cache)
    ELSE FixLineFrom(ms, k + 1, fixedLine, fixes, unfixed, cache)

FixLineNext(ms, k, fixedLine, fixes, unfixed, cache, res) ==
    IF res[2]
    THEN FixLineFrom(ms, k + 1, res[1],
                     Append(fixes, [Line |-> ms[k].Line, RuleID |-> ms[k].Rule.ID,
                                    Original |-> fixedLine, Fixed |-> res[1]]),
                     unfixed, cache)
    ELSE FixLineFrom(ms, k + 1, fixedLine, fixes, unfixed + 1, cache)

FixLineWith(ms, k, fixedLine, fixes, unfixed, cache) ==
    FixLineNext(ms, k, fixedLine, fixes, unfixed, cache,
                FixOne(ms[k], fixedLine, cache))

FixLineFrom(ms, k, fixedLine, fixes, unfixed, cache) ==
    IF k > Len(ms)
    THEN [line |-> fixedLine, fixes |-> fixes, unfixed |-> unfixed, cache |-> cache]
    ELSE FixLineWith(ms, k, fixedLine, fixes, unfixed,
                     IF ms[k].Rule.FixType = FixReplace
                     THEN CacheAfter(cache, ms[k].Rule) ELSE cache)

fixLine(line, ms, cache) == FixLineFrom(ms, 1, line, <<>>, 0, cache)

\* sort.Slice by Column, larger first; a slice this short is sorted by
\* insertion, which keeps matches of equal Column in their order
RECURSIVE InsertByColumn(_, _)
InsertByColumn(sorted, m) ==
    IF sorted = <<>> THEN <<m>>
    ELSE IF m.Column > sorted[Len(sorted)].Column
         THEN Append(InsertByColumn(SubSeq(sorted, 1, Len(sorted) - 1), m),
                     sorted[Len(sorted)])
         ELSE Append(sorted, m)

RECURSIVE SortByColumn(_, _, _)
SortByColumn(ms, k, sorted) ==
    IF k > Len(ms) THEN sorted
    ELSE SortByColumn(ms, k + 1, InsertByColumn(sorted, ms[k]))

RECURSIVE SelectSeq2(_, _, _)
SelectSeq2(ms, k, n) ==
    IF k > Len(ms) THEN <<>>
    ELSE (IF ms[k].Line = n THEN <<ms[k]>> ELSE <<>>) \o SelectSeq2(ms, k + 1, n)

\* matchesByLine[n], sorted
MatchesOfLine(ms, n) == SortByColumn(SelectSeq2(ms, 1, n), 1, <<>>)

\* validateBashSyntax: the shell parser of mvdan.cc/sh, reduced to what the
\* texts of this model can get wrong, a quote that is never closed
RECURSIVE QuoteState(_, _, _)
QuoteState(content, k, q) ==
    IF k > Len(content) THEN q
    ELSE IF q = "" THEN
            QuoteState(content, k + 1,
                       IF content[k] \in {"'", "\""} THEN content[k] ELSE "")
    ELSE QuoteState(content, k + 1, IF content[k] = q THEN "" ELSE q)

validateBashSyntax(content) == QuoteState(content, 1, "") = ""

\* FixFile's loop over the lines from line n on
RECURSIVE FixLinesFrom(_, _, _, _)
FixLinesWith(lines, ms, n, acc, r) ==
    FixLinesFrom(lines, ms, n + 1,
                 [out |-> Append(acc.out, r.line),
                  Fixes |-> acc.Fixes \o r.fixes,
                  FixedCount |-> acc.FixedCount + Len(r.fixes),
                  UnfixedCount |-> acc.UnfixedCount + r.unfixed,
                  cache |-> r.cache])

FixLinesAt(lines, ms, n, acc, lm) ==
    IF lm = <<>>
    THEN FixLinesFrom(lines, ms, n + 1, [acc EXCEPT !.out = Append(@, lines[n])])
    ELSE FixLinesWith(lines, ms, n, acc, fixLine(lines[n], lm, acc.cache))

FixLinesFrom(lines, ms, n, acc) ==
    IF n > Len(lines) THEN acc
    ELSE FixLinesAt(lines, ms, n, acc, MatchesOfLine(ms, n))

\* mutant of Validates: every file goes to the validator
ValidatesAlways(nFixed) == nFixed >= 0

\* whether FixFile hands the content to the validator
Validates(nFixed) == nFixed > 0

\* the Result of FixFile, and the Fixer's cache, for the rewritten text
ResultOf(acc, text) ==
    [Content |-> text,
     FixedCount |-> acc.FixedCount,
     UnfixedCount |-> acc.UnfixedCount,
     Fixes |-> acc.Fixes,
     validated |-> IF Validates(acc.FixedCount) THEN <<text>> ELSE <<>>,
     ValidationErr |-> Validates(acc.FixedCount) /\ ~validateBashSyntax(text),
     cache |-> acc.cache]

\* result.Content = strings.Join(outputLines, "\n") + "\n"
FixFileEnd(acc) == ResultOf(acc, Join(acc.out, <<"\n">>) \o <<"\n">>)

\* FixFile on a file of the given content
FixFile(content, ms, cache) ==
    FixFileEnd(FixLinesFrom(ScanLines(content), ms, 1,
                            [out |-> <<>>, Fixes |-> <<>>, FixedCount |-> 0,
                             UnfixedCount |-> 0, cache |-> cache]))

(***************************************************************************)
(* Inputs of the command specification.                                    *)
(***************************************************************************)
SedRule ==
    Rule("sed-inplace", SeverityError,
         <<"s", "e", "d", " ", "-", "i", " ">>, Empty, Empty, FixReplace,
         <<"s", "e", "d", " ", "-", "i", " ", "'", "'", " ">>)

\* "rl" stands for readlink; the template opens a quote it never closes
BrokenRule ==
    Rule("broken-fix", SeverityError,
         <<"r", "l", " ", "-", "f">>, Empty, Empty, FixReplace,
         <<"r", "l", " ", "\"">>)

GrepRule ==
    Rule("grep-perl-regex", SeverityError,
         <<"g", "r", "e", "p", " ", "-", "P">>, Empty, Empty, FixTransform, Empty)

FixRulePool == <<SedRule, BrokenRule, EchoRule, GrepRule>>

FixLinePool ==
    { <<"s", "e", "d", " ", "-", "i", " ", "s", " ", "f">>,
      <<"r", "l", " ", "-", "f", " ", "x">>,
      <<"e", "c", "h", "o", " ", "-", "e", " ", "h", "i">>,
      <<"g", "r", "e", "p", " ", "-", "P", " ", "'", "\\", "d", "+", "'", " ", "f">> }

PathA == <<"a.sh">>
PathB == <<"b.sh">>
OutPath == <<"out">>

(***************************************************************************)
(* The command (internal/cli/root.go).                                     *)
(***************************************************************************)
\* what ScanFile can append for one line: the range over the map s.compiled
\* visits the rules in an order that is not fixed
LineOutcomes(rs, comp, path, n, line) ==
    {ScanRules(rs, comp, order, 1, path, n, line) : order \in Perms(DOMAIN comp)}

CurPath == args[fileIdx]

SeverityOrder(sev) ==
    IF sev = SeverityError THEN 2 ELSE IF sev = SeverityWarning THEN 1 ELSE 0

\* mutant of FilterFrom: a Match at the minimum level is dropped
RECURSIVE FilterFromAbove(_, _, _)
FilterFromAbove(ms, k, minLevel) ==
    IF k > Len(ms) THEN <<>>
    ELSE (IF SeverityOrder(ms[k].Rule.Severity) > minLevel THEN <<ms[k]>> ELSE <<>>)
         \o FilterFromAbove(ms, k + 1, minLevel)

RECURSIVE FilterFrom(_, _, _)
FilterFrom(ms, k, minLevel) ==
    IF k > Len(ms) THEN <<>>
    ELSE (IF SeverityOrder(ms[k].Rule.Severity) >= minLevel THEN <<ms[k]>> ELSE <<>>)
         \o FilterFrom(ms, k + 1, minLevel)

FilterBySeverity(ms, sev) == FilterFrom(ms, 1, SeverityOrder(sev))

HasErrors(ms) == \E k \in DOMAIN ms : ms[k].Rule.Severity = SeverityError

RECURSIVE filterMatchesByFile(_, _)
filterMatchesByFile(ms, file) ==
    IF ms = <<>> THEN <<>>
    ELSE (IF ms[1].File = file THEN <<ms[1]>> ELSE <<>>)
         \o filterMatchesByFile(Tail(ms), file)

\* filepath.Join(outputPath, filepath.Base(inputFile)) on paths held as
\* sequences of components
determineOutputPath(inputFile, allInputFiles) ==
    IF write THEN inputFile
    ELSE IF outputPath # <<>>
         THEN IF Len(allInputFiles) = 1 THEN outputPath
              ELSE Append(outputPath, inputFile[Len(inputFile)])
         ELSE inputFile

\* mutant of WritesOutput: a rejected file is written like any other
WritesOutputAlways(result) == ~dryRun

\* runFix reaches writeOutput for a file with this Result
WritesOutput(result) == ~result.ValidationErr /\ ~dryRun

\* mutant of FixedDelta: the fixes of a rejected file stay in the total
FixedDeltaKeepsRejected(result) == result.FixedCount

\* what runFix adds to fixedCount for a file with this Result
FixedDelta(result) == IF result.ValidationErr THEN 0 ELSE result.FixedCount

\* mutant of UnfixedDelta: the fixes of a rejected file are not counted
UnfixedDeltaIgnoresRejected(result) == result.UnfixedCount

\* what runFix adds to unfixedCount for a file with this Result
UnfixedDelta(result) ==
    result.UnfixedCount + (IF result.ValidationErr THEN result.FixedCount ELSE 0)

\* scanner.New in runCheck
New ==
    /\ pc = "new"
    /\ IF NewFails(ruleSet)
       THEN /\ pc' = "exit"
            /\ err' = "creating scanner"
            /\ exitCode' = 1
            /\ UNCHANGED <<compiled, fileLines>>
       ELSE /\ pc' = "scan"
            /\ compiled' = NewCompiled(ruleSet)
            /\ fileLines' = ScanLines(disk[args[1]])
            /\ UNCHANGED <<err, exitCode>>
    /\ UNCHANGED <<fileIdx, lineNum, matches, allMatches, scanResults, disk>>
    /\ UNCHANGED <<inputVars, fixVars>>

\* one iteration of ScanFile's loop over the lines of the file
ScanLine ==
    /\ pc = "scan"
    /\ lineNum < Len(fileLines)
    /\ lineNum' = lineNum + 1
    /\ LET line == fileLines[lineNum + 1]
       IN IF TrimSpace(line) = Empty
          THEN UNCHANGED matches
          ELSE \E found \in LineOutcomes(ruleSet, compiled, CurPath, lineNum + 1, line) :
                  matches' = matches \o found
    /\ UNCHANGED <<compiled, pc, fileIdx, fileLines, allMatches, scanResults,
                   exitCode, err, disk>>
    /\ UNCHANGED <<inputVars, fixVars>>

\* mutant of ScanFilesAppend: the Matches of a file go in front
ScanFilesPrepend(all, ms) == ms \o all

\* ScanFiles: allMatches = append(allMatches, matches...)
ScanFilesAppend(all, ms) == all \o ms

\* ScanFile returns at the end of the file; ScanFiles appends what it
\* returned and goes to the next path, or returns after the last one
ScanFileReturn ==
    /\ pc = "scan"
    /\ lineNum = Len(fileLines)
    /\ allMatches' = ScanFilesAppend(allMatches, matches)
    /\ scanResults' = Append(scanResults, matches)
    /\ matches' = <<>>
    /\ lineNum' = 0
    /\ fileIdx' = fileIdx + 1
    /\ pc' = IF fileIdx = Len(args) THEN "scanned" ELSE "scan"
    /\ fileLines' = IF fileIdx = Len(args) THEN <<>>
                    ELSE ScanLines(disk[args[fileIdx + 1]])
    /\ UNCHANGED <<compiled, exitCode, err, disk>>
    /\ UNCHANGED <<inputVars, fixVars>>

\* runCheck after ScanFiles: the severity filter, then fix mode or report
Filter ==
    /\ pc = "scanned"
    /\ allMatches' = FilterBySeverity(allMatches, minSeverity)
    /\ pc' = IF write \/ outputPath # <<>> THEN "fix" ELSE "report"
    /\ fileIdx' = 1
    /\ UNCHANGED <<exitCode, err, disk>>
    /\ UNCHANGED <<inputVars, scanVars, fixVars>>

\* runCheck in check-only mode: print the matches, exit 1 on an error match
Report ==
    /\ pc = "report"
    /\ exitCode' = IF HasErrors(allMatches) THEN 1 ELSE 0
    /\ pc' = "exit"
    /\ UNCHANGED <<allMatches, fileIdx, err, disk>>
    /\ UNCHANGED <<inputVars, scanVars, fixVars>>

\* runFix's loop body once FixFile returned result for the file
RunFixStep(outPath, result) ==
    /\ fixerCompiled' = result.cache
    /\ results' = Append(results, result)
    /\ fixedCount' = fixedCount + FixedDelta(result)
    /\ unfixedCount' = unfixedCount + UnfixedDelta(result)
    /\ IF WritesOutput(result)
       THEN /\ disk' = [p \in DOMAIN disk \cup {outPath} |->
                           IF p = outPath THEN result.Content ELSE disk[p]]
            /\ writes' = Append(writes, [by |-> fileIdx, path |-> outPath,
                                         content |-> result.Content])
       ELSE UNCHANGED <<disk, writes>>

\* one iteration of runFix's loop over the input files
RunFixFile ==
    /\ pc = "fix"
    /\ fileIdx <= Len(args)
    /\ RunFixStep(determineOutputPath(CurPath, args),
                  FixFile(disk[CurPath], filterMatchesByFile(allMatches, CurPath),
                          fixerCompiled))
    /\ fileIdx' = fileIdx + 1
    /\ UNCHANGED <<pc, allMatches, exitCode, err>>
    /\ UNCHANGED <<inputVars, scanVars>>

\* runFix after the loop: the totals and the exit code
RunFixTotal ==
    /\ pc = "fix"
    /\ fileIdx > Len(args)
    /\ exitCode' = IF unfixedCount > 0 THEN 1 ELSE 0
    /\ pc' = "exit"
    /\ UNCHANGED <<allMatches, fileIdx, err, disk>>
    /\ UNCHANGED <<inputVars, scanVars, fixVars>>

Fresh ==
    /\ compiled = <<>>
    /\ fileIdx = 1
    /\ fileLines = <<>>
    /\ lineNum = 0
    /\ matches = <<>>
    /\ allMatches = <<>>
    /\ scanResults = <<>>
    /\ fixerCompiled = <<>>
    /\ fixedCount = 0
    /\ unfixedCount = 0
    /\ results = <<>>
    /\ writes = <<>>
    /\ exitCode = -1
    /\ err = ""
    /\ disk0 = disk

\* the command after loadRules returned the rule set: what it was loaded
\* from plays no part from here on
Idle ==
    /\ Fresh
    /\ pc = "new"
    /\ builtinFiles = <<>>
    /\ configFile = <<>>
    /\ threads = <<>>

\* one script scanned twice by one Scanner
InitScan ==
    /\ \E lines \in SeqsUpTo(ScanLinePool, MaxLines) :
          disk = [p \in {ScanPath} |-> FileOf(lines)]
    /\ args = <<ScanPath, ScanPath>>
    /\ \E S \in SUBSET (1..Len(ScanRulePool)) :
          /\ Cardinality(S) <= MaxRules
          /\ ruleSet = Pick(ScanRulePool, S, 1)
    /\ write = FALSE
    /\ outputPath = <<>>
    /\ dryRun = FALSE
    /\ minSeverity = SeverityWarning
    /\ Idle

NextScan == New \/ ScanLine \/ ScanFileReturn

SpecScan == InitScan /\ [][NextScan]_vars

\* the command on one or two scripts that hold up to MaxLines lines together
Init ==
    /\ \E lines \in SeqsUpTo(FixLinePool, MaxLines) :
          \/ /\ args = <<PathA>>
             /\ disk = [p \in {PathA} |-> FileOf(lines)]
          \/ \E k \in 0..Len(lines) :
                /\ args = <<PathA, PathB>>
                /\ disk = [p \in {PathA, PathB} |->
                              IF p = PathA THEN FileOf(SubSeq(lines, 1, k))
                              ELSE FileOf(SubSeq(lines, k + 1, Len(lines)))]
    /\ ruleSet = FixRulePool
    /\ \E mode \in {"check", "write", "output"} :
          /\ write = (mode = "write")
          /\ outputPath = IF mode = "output" THEN OutPath ELSE <<>>
          /\ dryRun \in (IF mode = "check" THEN {FALSE} ELSE BOOLEAN)
    /\ minSeverity \in {SeverityWarning, SeverityError}
    /\ Idle

Next == New \/ ScanLine \/ ScanFileReturn \/ Filter \/ Report \/ RunFixFile \/ RunFixTotal

Spec == Init /\ [][Next]_vars

\* a replace rule whose template holds the pattern of SedRule
GsRule ==
    Rule("gsed-alias", SeverityError,
         <<"g", "s", " ">>, Empty, Empty, FixReplace,
         <<"s", "e", "d", " ", "-", "i", " ", "-", "e", " ">>)

\* "st" stands for stat; a rule that only a shell function can fix
FuncRule ==
    Rule("stat-format", SeverityWarning,
         <<"s", "t", " ", "-", "c">>, Empty, Empty, FixFunction, Empty)

\* a replace rule whose match overlaps that of SedRule: its fix takes away
\* the text SedRule matched
FlagRule ==
    Rule("sed-inplace-flag", SeverityError,
         <<"-", "i", " ", "a">>, Empty, Empty, FixReplace, <<"-", "n">>)

FixerRulePool == <<SedRule, GsRule, BrokenRule, EchoRule, FuncRule, FlagRule>>

\* lines on which two rules match, or one rule matches twice
FixerLinePool ==
    { <<"s", "e", "d", " ", "-", "i", " ", "a", ";", "g", "s", " ", "b">>,
      <<"s", "e", "d", " ", "-", "i", " ", "a", ";", "r", "l", " ", "-", "f", " ", "x">>,
      <<"e", "c", "h", "o", " ", "-", "e", " ", "s", "t", " ", "-", "c", " ",
        "e", "c", "h", "o", " ", "-", "e">> }

\* the command, checking or with -w, on one script of up to MaxLines lines
\* with up to MaxRules rules
InitFix ==
    /\ \E lines \in SeqsUpTo(FixerLinePool, MaxLines) :
          disk = [p \in {PathA} |-> FileOf(lines)]
    /\ args = <<PathA>>
    /\ \E S \in SUBSET (1..Len(FixerRulePool)) :
          /\ Cardinality(S) <= MaxRules
          /\ ruleSet = Pick(FixerRulePool, S, 1)
    /\ write \in BOOLEAN
    /\ outputPath = <<>>
    /\ dryRun = FALSE
    /\ minSeverity = SeverityWarning
    /\ Idle

SpecFix == InitFix /\ [][Next]_vars

\* the rule of the other identifier that applyTransform knows
GrepOnlyRule ==
    Rule("grep-only-matching-P", SeverityError,
         <<"g", "r", "e", "p", " ", "-", "o", "P">>, Empty, Empty, FixTransform, Empty)

GrepRulePool == <<GrepRule, GrepOnlyRule>>

\* grep -P lines: a pattern that converts, one in double quotes with another
\* flag letter, one that holds a shell variable, one with a word boundary,
\* one with a backreference, and two lines with two invocations each
GrepLinePool ==
    { <<"g", "r", "e", "p", " ", "-", "P", " ", "'", "\\", "d", "+", "'",
        " ", "f">>,
      <<"g", "r", "e", "p", " ", "-", "o", "P", " ", "\"", "\\", "w", "\"",
        " ", "f">>,
      <<"g", "r", "e", "p", " ", "-", "P", " ", "\"", "\\", "d", "$", "x",
        "\"", " ", "f">>,
      <<"g", "r", "e", "p", " ", "-", "P", " ", "'", "\\", "b", "f", "o",
        "o", "'", " ", "f">>,
      <<"g", "r", "e", "p", " ", "-", "P", " ", "'", "(", "a", ")", "\\",
        "1", "'", " ", "f">>,
      <<"g", "r", "e", "p", " ", "-", "P", " ", "'", "\\", "d", "'", " ",
        "a", " ", "|", " ", "g", "r", "e", "p", " ", "-", "P", " ", "'",
        "\\", "w", "'", " ", "b">>,
      <<"g", "r", "e", "p", " ", "-", "P", " ", "'", "\\", "d", "'", " ",
        "a", " ", "|", " ", "g", "r", "e", "p", " ", "-", "P", " ", "'",
        "\\", "b", "x", "'", " ", "b">> }

\* the command, checking or with -w, on one script of up to MaxLines lines
\* that call grep -P
InitGrep ==
    /\ \E lines \in SeqsUpTo(GrepLinePool, MaxLines) :
          disk = [p \in {PathA} |-> FileOf(lines)]
    /\ args = <<PathA>>
    /\ \E S \in SUBSET (1..Len(GrepRulePool)) : ruleSet = Pick(GrepRulePool, S, 1)
    /\ write \in BOOLEAN
    /\ outputPath = <<>>
    /\ dryRun = FALSE
    /\ minSeverity = SeverityWarning
    /\ Idle

SpecGrep == InitGrep /\ [][Next]_vars

\* rules of the three severities
CheckRulePool == <<SedRule, EchoRule, ShebangRule>>

CheckLinePool ==
    { <<"s", "e", "d", " ", "-", "i", " ", "s", " ", "f">>,
      <<"e", "c", "h", "o", " ", "-", "e", " ", "h", "i">>,
      <<"#", "!", "b", "a", "s", "h">>,
      <<"e", "c", "h", "o", " ", "-", "e", " ", "s", "e", "d", " ", "-", "i", " ", "x">> }

\* the command in check-only mode on one script of up to MaxLines lines,
\* with each value of --severity
InitCheck ==
    /\ \E lines \in SeqsUpTo(CheckLinePool, MaxLines) :
          disk = [p \in {PathA} |-> FileOf(lines)]
    /\ args = <<PathA>>
    /\ ruleSet = CheckRulePool
    /\ write = FALSE
    /\ outputPath = <<>>
    /\ dryRun = FALSE
    /\ minSeverity \in {SeverityInfo, SeverityWarning, SeverityError}
    /\ Idle

NextCheck == New \/ ScanLine \/ ScanFileReturn \/ Filter \/ Report

SpecCheck == InitCheck /\ [][NextCheck]_vars

\* a Match as a caller of FixFile hands it over: FixFile reads its Line, its
\* Column and its Rule
SuppliedMatch(rule, n) ==
    [Rule |-> rule, File |-> PathA, Line |-> n, Column |-> 1,
     Content |-> Empty, MatchedStr |-> Empty, FixedStr |-> Empty]

\* a file of these lines whose last line has no newline after it
FileOfUnterminated(lines) == SubSeq(FileOf(lines), 1, Len(FileOf(lines)) - 1)

\* FixFile returned result to its caller
FixFileReturn(result) ==
    /\ results' = <<result>>
    /\ fixerCompiled' = result.cache
    /\ fixedCount' = result.FixedCount
    /\ unfixedCount' = result.UnfixedCount

\* a call of Fixer.FixFile on a new Fixer
FixFileCall ==
    /\ pc = "fixfile"
    /\ FixFileReturn(FixFile(disk[PathA], allMatches, fixerCompiled))
    /\ pc' = "exit"
    /\ UNCHANGED <<disk, allMatches, fileIdx, exitCode, err, writes>>
    /\ UNCHANGED <<inputVars, scanVars>>

\* Fixer.FixFile called on a script of up to MaxLines lines, the last of
\* them with or without a newline after it, with up to MaxMatches Matches of
\* a replace rule and of a suggest rule, for lines in the file and for the
\* line after its last
InitFixFile ==
    /\ \E lines \in SeqsUpTo({<<"s", "e", "d", " ", "-", "i", " ", "s", " ", "f">>, 
                             <<"e", "c", "h", "o", " ", "-", "e", " ", "h", "i">>}, MaxLines) :
          \E content \in {FileOf(lines)}
                            \cup (IF lines = <<>> THEN {}
                                  ELSE {FileOfUnterminated(lines)}) :
             disk = [p \in {PathA} |-> content]
    /\ allMatches \in SeqsUpTo({SuppliedMatch(rule, n) :
                                   rule \in {SedRule, EchoRule},
                                   n \in 1..(MaxLines + 1)}, MaxMatches)
    /\ args = <<PathA>>
    /\ ruleSet = <<SedRule, EchoRule>>
    /\ write = TRUE
    /\ outputPath = <<>>
    /\ dryRun = FALSE
    /\ minSeverity = SeverityWarning
    /\ builtinFiles = <<>>
    /\ configFile = <<>>
    /\ threads = <<>>
    /\ compiled = <<>>
    /\ pc = "fixfile"
    /\ fileIdx = 1
    /\ fileLines = <<>>
    /\ lineNum = 0
    /\ matches = <<>>
    /\ scanResults = <<>>
    /\ fixerCompiled = <<>>
    /\ fixedCount = 0
    /\ unfixedCount = 0
    /\ results = <<>>
    /\ writes = <<>>
    /\ exitCode = -1
    /\ err = ""
    /\ disk0 = disk

NextFixFile == FixFileCall

SpecFixFile == InitFixFile /\ [][NextFixFile]_vars

(***************************************************************************)
(* ScanFile called from several goroutines on one Scanner.  A step is one  *)
(* iteration of a call's loop over the lines of its file; the steps of the *)
(* calls interleave in any order.                                          *)
(***************************************************************************)
\* mutant of ThreadAppend: the calls append to one list of matches
ThreadAppendShared(ts, t, found) ==
    [u \in DOMAIN ts |->
        [ts[u] EXCEPT !.matches = @ \o found,
                      !.lineNum = IF u = t THEN @ + 1 ELSE @]]

\* matches = append(matches, match) on the local of the call t, for the
\* Matches of one line, and lineNum++
ThreadAppend(ts, t, found) ==
    [ts EXCEPT ![t].matches = @ \o found, ![t].lineNum = @ + 1]

\* one iteration of the loop of the call t
GoScanLine ==
    \E t \in DOMAIN threads :
        /\ pc = "go"
        /\ ~threads[t].done
        /\ threads[t].lineNum < Len(threads[t].lines)
        /\ \E found \in LineOutcomes(ruleSet, compiled, threads[t].path,
                                     threads[t].lineNum + 1,
                                     threads[t].lines[threads[t].lineNum + 1]) :
              threads' = ThreadAppend(threads, t, found)
        /\ UNCHANGED <<disk, disk0, args, ruleSet, builtinFiles, configFile, write,
                       outputPath, dryRun, minSeverity, pc, fileIdx, allMatches,
                       exitCode, err, scanVars, fixVars>>

\* the call t returns its matches
GoScanReturn ==
    \E t \in DOMAIN threads :
        /\ pc = "go"
        /\ ~threads[t].done
        /\ threads[t].lineNum = Len(threads[t].lines)
        /\ threads' = [threads EXCEPT ![t].done = TRUE]
        /\ UNCHANGED <<disk, disk0, args, ruleSet, builtinFiles, configFile, write,
                       outputPath, dryRun, minSeverity, pc, fileIdx, allMatches,
                       exitCode, err, scanVars, fixVars>>

\* a Scanner constructed from the rules of the three severities, and one
\* ScanFile call per script started on it; the scripts hold up to MaxLines
\* lines together
InitConc ==
    /\ \E lines \in SeqsUpTo(CheckLinePool \ {<<"#", "!", "b", "a", "s", "h">>}, MaxLines) :
          \E k \in 0..Len(lines) :
             disk = [p \in {PathA, PathB} |->
                        IF p = PathA THEN FileOf(SubSeq(lines, 1, k))
                        ELSE FileOf(SubSeq(lines, k + 1, Len(lines)))]
    /\ args = <<PathA, PathB>>
    /\ ruleSet = CheckRulePool
    /\ write = FALSE
    /\ outputPath = <<>>
    /\ dryRun = FALSE
    /\ minSeverity = SeverityWarning
    /\ builtinFiles = <<>>
    /\ configFile = <<>>
    /\ threads = [t \in DOMAIN args |->
                     [path |-> args[t], lines |-> ScanLines(disk[args[t]]),
                      lineNum |-> 0, matches |-> <<>>, done |-> FALSE]]
    /\ compiled = NewCompiled(ruleSet)
    /\ pc = "go"
    /\ fileIdx = 1
    /\ fileLines = <<>>
    /\ lineNum = 0
    /\ matches = <<>>
    /\ allMatches = <<>>
    /\ scanResults = <<>>
    /\ fixerCompiled = <<>>
    /\ fixedCount = 0
    /\ unfixedCount = 0
    /\ results = <<>>
    /\ writes = <<>>
    /\ exitCode = -1
    /\ err = ""
    /\ disk0 = disk

NextConc == GoScanLine \/ GoScanReturn

SpecConc == InitConc /\ [][NextConc]_vars

(***************************************************************************)
(* Loading rules (internal/rules/loader.go, loadRules of internal/cli).    *)
(* A rules file is a record: whether it can be read, whether its YAML      *)
(* parses, and the rules it holds, as written in the file.                 *)
(***************************************************************************)
File(rs) == [readable |-> TRUE, parses |-> TRUE, rules |-> rs]

NoRuleSet == [ok |-> FALSE, rules |-> <<>>]

ValidSeverities == {SeverityError, SeverityWarning, SeverityInfo}

ValidFixTypes == {FixReplace, FixSuggest, FixFunction, FixTransform}

\* mutant of validateRule: shebang_match is not compiled
validateRuleNoShebang(r) ==
    IF r.ID = "" \/ r.Name = "" \/ r.Pattern = Empty THEN [ok |-> FALSE, rule |-> r]
    ELSE IF ~Compiles(r.Pattern) THEN [ok |-> FALSE, rule |-> r]
    ELSE IF r.NegativePattern # Empty /\ ~Compiles(r.NegativePattern)
    THEN [ok |-> FALSE, rule |-> r]
    ELSE IF r.Severity \notin ValidSeverities \cup {""} THEN [ok |-> FALSE, rule |-> r]
    ELSE IF r.FixType \notin ValidFixTypes \cup {""}
    THEN [ok |-> FALSE,
          rule |-> [r EXCEPT !.Severity = IF @ = "" THEN SeverityWarning ELSE @]]
    ELSE [ok |-> TRUE,
          rule |-> [r EXCEPT !.Severity = IF @ = "" THEN SeverityWarning ELSE @,
                             !.FixType = IF @ = "" THEN FixSuggest ELSE @]]

\* validateRule: ok when it returns nil, and the rule as it leaves it
validateRule(r) ==
    IF r.ID = "" THEN [ok |-> FALSE, rule |-> r]
    ELSE IF r.Name = "" THEN [ok |-> FALSE, rule |-> r]
    ELSE IF r.Pattern = Empty THEN [ok |-> FALSE, rule |-> r]
    ELSE IF ~Compiles(r.Pattern) THEN [ok |-> FALSE, rule |-> r]
    ELSE IF r.NegativePattern # Empty /\ ~Compiles(r.NegativePattern)
    THEN [ok |-> FALSE, rule |-> r]
    ELSE IF r.ShebangMatch # Empty /\ ~Compiles(r.ShebangMatch)
    THEN [ok |-> FALSE, rule |-> r]
    ELSE IF r.Severity \notin ValidSeverities \cup {""} THEN [ok |-> FALSE, rule |-> r]
    ELSE IF r.FixType \notin ValidFixTypes \cup {""}
    THEN [ok |-> FALSE,
          rule |-> [r EXCEPT !.Severity = IF @ = "" THEN SeverityWarning ELSE @]]
    ELSE [ok |-> TRUE,
          rule |-> [r EXCEPT !.Severity = IF @ = "" THEN SeverityWarning ELSE @,
                             !.FixType = IF @ = "" THEN FixSuggest ELSE @]]

\* parseRuleSet's loop over rs.Rules from the i-th rule on
RECURSIVE ValidateFrom(_, _, _)
\* mutant of ValidateNext: an invalid rule is left out and the rest is kept
ValidateNextSkipsInvalid(rs, i, out, v) ==
    ValidateFrom(rs, i + 1, IF v.ok THEN Append(out, v.rule) ELSE out)

ValidateNext(rs, i, out, v) ==
    IF v.ok THEN ValidateFrom(rs, i + 1, Append(out, v.rule)) ELSE NoRuleSet

ValidateFrom(rs, i, out) ==
    IF i > Len(rs) THEN [ok |-> TRUE, rules |-> out]
    ELSE ValidateNext(rs, i, out, validateRule(rs[i]))

parseRuleSet(file) ==
    IF ~file.parses THEN NoRuleSet ELSE ValidateFrom(file.rules, 1, <<>>)

LoadFromFile(file) ==
    IF ~file.readable THEN NoRuleSet ELSE parseRuleSet(file)

\* LoadBuiltin's loop over the entries of the builtin directory
RECURSIVE LoadBuiltinFrom(_, _, _)
LoadBuiltinNext(files, i, combined, rs) ==
    IF rs.ok THEN LoadBuiltinFrom(files, i + 1, combined \o rs.rules) ELSE NoRuleSet

LoadBuiltinFrom(files, i, combined) ==
    IF i > Len(files) THEN [ok |-> TRUE, rules |-> combined]
    ELSE IF ~files[i].readable THEN NoRuleSet
    ELSE LoadBuiltinNext(files, i, combined, parseRuleSet(files[i]))

LoadBuiltin(files) == LoadBuiltinFrom(files, 1, <<>>)

\* mutant of MergeRule: an overriding rule is moved to the end
MergeRuleMovesToEnd(combined, rule) ==
    Append(SelectSeq(combined, LAMBDA r : r.ID # rule.ID), rule)

\* mutant of MergeRule: no identifier is ever seen before
MergeRuleAppendsAll(combined, rule) == Append(combined, rule)

\* the body of Merge's inner loop: seen[rule.ID] is the index of the rule
\* of that ID in combined.Rules
MergeRule(combined, rule) ==
    IF \E idx \in DOMAIN combined : combined[idx].ID = rule.ID
    THEN [combined EXCEPT
             ![CHOOSE idx \in DOMAIN combined : combined[idx].ID = rule.ID] = rule]
    ELSE Append(combined, rule)

RECURSIVE MergeFrom(_, _, _)
MergeFrom(combined, rs, i) ==
    IF i > Len(rs) THEN combined
    ELSE MergeFrom(MergeRule(combined, rs[i]), rs, i + 1)

RECURSIVE MergeSets(_, _, _)
MergeSets(sets, k, combined) ==
    IF k > Len(sets) THEN combined
    ELSE MergeSets(sets, k + 1, MergeFrom(combined, sets[k], 1))

\* Merge(sets...): the Rules of the combined RuleSet
Merge(sets) == MergeSets(sets, 1, <<>>)

LoadRulesMerge(builtin, custom) ==
    IF ~custom.ok THEN NoRuleSet
    ELSE [ok |-> TRUE, rules |-> Merge(<<builtin.rules, custom.rules>>)]

LoadRulesWith(builtin, cfg) ==
    IF ~builtin.ok THEN NoRuleSet
    ELSE IF cfg # <<>> THEN LoadRulesMerge(builtin, LoadFromFile(cfg[1]))
    ELSE builtin

loadRules(files, cfg) == LoadRulesWith(LoadBuiltin(files), cfg)

\* runCheck from its call of loadRules to its call of scanner.New
LoadRulesReturn(res) ==
    IF res.ok
    THEN /\ ruleSet' = res.rules
         /\ pc' = "new"
         /\ UNCHANGED <<err, exitCode>>
    ELSE /\ ruleSet' = <<>>
         /\ pc' = "exit"
         /\ err' = "loading rules"
         /\ exitCode' = 1

LoadRules ==
    /\ pc = "load"
    /\ LoadRulesReturn(loadRules(builtinFiles, configFile))
    /\ UNCHANGED <<disk, fileIdx, allMatches, runVars, scanVars, fixVars>>

\* the rules the files of the model hold: a rule, another definition of it
\* that leaves severity and fix type to their defaults, a second rule, and
\* a rule that validateRule rejects
EchoOverride ==
    [EchoRule EXCEPT !.Name = "echo", !.Severity = "", !.FixType = "",
                     !.Pattern = <<"e", "c", "h", "o", " ">>]

LoadRulePool == {EchoRule, EchoOverride, RealpathRule, BadRule}

\* one rule of every kind validateRule tells apart
RawRules ==
    [ID : {"", "raw"}, Name : {"", "raw rule"},
     Severity : ValidSeverities \cup {"", "fatal"},
     Pattern : {Empty, <<"r", "p", " ">>, <<"[", "b", "a", "d">>},
     NegativePattern : {Empty, <<"-", "v">>, <<"[", "b", "a", "d">>},
     ShebangMatch : {Empty, <<"^", "#", "!">>, <<"[", "b", "a", "d">>},
     FixType : ValidFixTypes \cup {"", "auto"},
     FixTemplate : {Empty, <<"r", "l", " ">>}]

BadYaml == [readable |-> TRUE, parses |-> FALSE, rules |-> <<>>]

Unreadable == [readable |-> FALSE, parses |-> TRUE, rules |-> <<>>]

LoadLine ==
    <<"r", "p", " ", "x", ";", " ", "e", "c", "h", "o", " ", "-", "e">>

\* the command from its call of loadRules on, on one script of one line:
\* two builtin files and an optional -c file that hold up to MaxRules rules
\* each, or one builtin file that holds any one rule
InitLoad ==
    /\ disk = [p \in {ScanPath} |-> FileOf(<<LoadLine>>)]
    /\ args = <<ScanPath>>
    /\ \/ /\ \E f1 \in SeqsUpTo(LoadRulePool, MaxRules) :
                \E f2 \in {File(f) : f \in SeqsUpTo(LoadRulePool, 1)} \cup {BadYaml} :
                   builtinFiles = <<File(f1), f2>>
          /\ \/ configFile = <<>>
             \/ \E c \in {File(f) : f \in SeqsUpTo(LoadRulePool, MaxRules)}
                            \cup {BadYaml, Unreadable} :
                   configFile = <<c>>
       \/ /\ \E r \in RawRules : builtinFiles = <<File(<<r>>)>>
          /\ configFile = <<>>
    /\ ruleSet = <<>>
    /\ write = FALSE
    /\ outputPath = <<>>
    /\ dryRun = FALSE
    /\ minSeverity = SeverityWarning
    /\ threads = <<>>
    /\ Fresh
    /\ pc = "load"

NextLoad == LoadRules \/ New \/ ScanLine \/ ScanFileReturn

SpecLoad == InitLoad /\ [][NextLoad]_vars

(***************************************************************************)
(* Here-document regions, as the specification and the scanner's tests     *)
(* (TestDetectHereDoc, TestScanFile_HereDocSkipping) describe them.        *)
(***************************************************************************)
\* the delimiter of the here-document a line opens: "<<", an optional "-",
\* an optional quote, then the word; Empty when the line opens none
HereDocAt(line, i) ==
    LET a == i + 3 + (IF i + 3 <= Len(line) /\ line[i + 3] = "-" THEN 1 ELSE 0)
        b == a + (IF a <= Len(line) /\ line[a] \in {"'", "\""} THEN 1 ELSE 0)
    IN IF OccursAt(line, i, <<"<", "<">>) THEN SubSeq(line, b, b + WordRun(line, b) - 1)
       ELSE Empty

detectHereDoc(line) ==
    IF \E i \in 0..Len(line) : HereDocAt(line, i) # Empty
    THEN HereDocAt(line, Least({i \in 0..Len(line) : HereDocAt(line, i) # Empty}))
    ELSE Empty

\* the delimiter of the region that is open after line n (Empty: OUTSIDE)
RECURSIVE RegionAfter(_, _)
RegionAfter(lines, n) ==
    IF n = 0 THEN Empty
    ELSE LET d == RegionAfter(lines, n - 1)
         IN IF d # Empty
            THEN (IF TrimSpace(lines[n]) = d THEN Empty ELSE d)
            ELSE detectHereDoc(lines[n])

\* line n lies in a region: the opener line, the body, the closing line
InRegion(lines, n) ==
    RegionAfter(lines, n - 1) # Empty \/ detectHereDoc(lines[n]) # Empty

(***************************************************************************)
(* Properties.                                                             *)
(***************************************************************************)
Range(seq) == {seq[k] : k \in DOMAIN seq}

RECURSIVE SumSeq(_)
SumSeq(ns) == IF ns = <<>> THEN 0 ELSE ns[1] + SumSeq(Tail(ns))

\* the lines of the script as the command found it
LinesOf(path) == ScanLines(disk0[path])

\* C1: in fix mode a file whose rewritten content the validator rejects is
\* not written: no writeOutput call is made for it, nothing is written to
\* its output path, and the input file holds what it held at the start,
\* whatever was done for the files before it.
C1_RejectedFileIsNeverWritten ==
    \A i \in DOMAIN results :
        results[i].ValidationErr =>
            /\ \A w \in DOMAIN writes :
                  /\ writes[w].by # i
                  /\ writes[w].path # determineOutputPath(args[i], args)
            /\ disk[args[i]] = disk0[args[i]]

\* C1 witness: with -w and no dry run, the first file was fixed and written
\* and the second file was rejected by the validator
C1_Witness ==
    /\ write /\ ~dryRun
    /\ Len(results) = 2
    /\ ~results[1].ValidationErr /\ results[1].FixedCount > 0
    /\ results[2].ValidationErr
    /\ Len(writes) = 1

\* C2 (as claimed): when FixFile applied at least one fix and the validator
\* rejects the rewritten text, Result.Content equals the original text.
C2_RejectedContentIsOriginal ==
    \A i \in DOMAIN results :
        (results[i].FixedCount > 0 /\ results[i].ValidationErr) =>
            results[i].Content = disk0[args[i]]

\* the line n of the rewritten text as the applied fixes give it
LineAfterFixes(r, orig, n) ==
    LET on == {k \in DOMAIN r.Fixes : r.Fixes[k].Line = n}
    IN IF on = {} THEN orig[n]
       ELSE r.Fixes[CHOOSE k \in on : \A j \in on : j <= k].Fixed

\* C3: FixFile calls the validator once per file when a fix was applied, on
\* the text that holds every line of the file (the fixed ones rewritten, the
\* others as they were), and not at all when no fix was applied.
C3_ValidatorOncePerFixedFile ==
    \A i \in DOMAIN results :
        LET r == results[i]
            orig == LinesOf(args[i])
        IN IF r.FixedCount > 0
           THEN /\ Len(r.validated) = 1
                /\ Len(ScanLines(r.validated[1])) = Len(orig)
                /\ \A n \in DOMAIN orig :
                      ScanLines(r.validated[1])[n] = LineAfterFixes(r, orig, n)
           ELSE r.validated = <<>>

\* C3 witness: a file of two lines, of which one was fixed and the other
\* was matched but left as it was, went to the validator once as a whole
C3_Witness ==
    \E i \in DOMAIN results :
        /\ Len(LinesOf(args[i])) = 2
        /\ results[i].FixedCount = 1
        /\ results[i].UnfixedCount = 1
        /\ Len(results[i].validated) = 1
        /\ Len(ScanLines(results[i].validated[1])) = 2

PassedFixed(r) == IF r.ValidationErr THEN 0 ELSE r.FixedCount
RejectedFixed(r) == IF r.ValidationErr THEN r.FixedCount ELSE 0
Unfixed(r) == r.UnfixedCount

\* C4: after any number of files, the applied total of runFix is the sum of
\* FixedCount over the files that passed validation, and the fixes of a
\* rejected file are counted in the unfixable total instead.
C4_RejectedFixesCountAsUnfixed ==
    /\ fixedCount = SumSeq([k \in DOMAIN results |-> PassedFixed(results[k])])
    /\ unfixedCount = SumSeq([k \in DOMAIN results |-> Unfixed(results[k])])
                     + SumSeq([k \in DOMAIN results |-> RejectedFixed(results[k])])

\* C4 witness: runFix ended after a file that passed with a fix applied and
\* a file that was rejected with a fix applied
C4_Witness ==
    /\ pc = "exit"
    /\ \E i, j \in DOMAIN results :
          /\ ~results[i].ValidationErr /\ results[i].FixedCount > 0
          /\ results[j].ValidationErr /\ results[j].FixedCount > 0

\* C5 (as claimed): a rule with an activation condition yields no Match on
\* a file whose first line does not satisfy the condition.
C5_ShebangGatesRule ==
    \A s \in DOMAIN scanResults : \A k \in DOMAIN scanResults[s] :
        LET m == scanResults[s][k]
        IN m.Rule.ShebangMatch # Empty =>
              MatchString(m.Rule.ShebangMatch, LinesOf(m.File)[1])

\* C6 (as claimed): no Match is produced for a line of a here-document
\* region, from the opener line through the closing delimiter line.
C6_NoMatchInsideHereDoc ==
    \A s \in DOMAIN scanResults : \A k \in DOMAIN scanResults[s] :
        ~InRegion(LinesOf(scanResults[s][k].File), scanResults[s][k].Line)

\* a compiled rule emits a Match for the line when evaluated on it
Emits(rule, line) ==
    /\ ~(HasPrefix(TrimSpace(line), <<"#">>) /\ ~HasPrefix(rule.Pattern, <<"^", "#">>))
    /\ MatchString(rule.Pattern, line)
    /\ ~(rule.NegativePattern # Empty /\ MatchString(rule.NegativePattern, line))

\* C7 (as claimed): inside a region with delimiter d a line that contains d
\* without being equal to it does not close the region, so that line and the
\* lines up to the closing line yield no Match; the line after the closing
\* line is evaluated again, so a matching line there yields a Match.
C7_RegionClosesOnlyAtDelimiter ==
    \A s \in DOMAIN scanResults :
        LET lines == LinesOf(args[s])
        IN \A n \in DOMAIN lines :
              LET d == RegionAfter(lines, n - 1)
              IN /\ (d # Empty /\ Contains(lines[n], d) /\ TrimSpace(lines[n]) # d) =>
                       /\ RegionAfter(lines, n) = d
                       /\ \A k \in DOMAIN scanResults[s] : scanResults[s][k].Line # n
                 /\ (n > 1 /\ d = Empty /\ RegionAfter(lines, n - 2) # Empty) =>
                       \A id \in DOMAIN compiled :
                          Emits(ruleSet[compiled[id]], lines[n]) =>
                             \E k \in DOMAIN scanResults[s] :
                                /\ scanResults[s][k].Line = n
                                /\ scanResults[s][k].Rule.ID = id

\* the Matches of a result on line n
MatchesOn(res, n) == {m \in Range(res) : m.Line = n}

\* the rule set without the rules that carry this ID
RECURSIVE Without(_, _)
Without(rs, id) ==
    IF rs = <<>> THEN <<>>
    ELSE (IF rs[1].ID = id THEN <<>> ELSE <<rs[1]>>) \o Without(Tail(rs), id)

\* the Matches a Scanner made of these rules yields for one line
ScannerMatches(rs, path, n, line) ==
    LET comp == NewCompiled(rs)
        order == CHOOSE o \in Perms(DOMAIN comp) : TRUE
    IN Range(ScanRules(rs, comp, order, 1, path, n, line))

\* C8: a rule whose primary and exclusion pattern both match a line yields
\* no Match for that line, and the Matches of the line are those a Scanner
\* without the vetoed rule yields for it.
C8_ExclusionVetoIsLocal ==
    \A s \in DOMAIN scanResults :
        LET lines == LinesOf(args[s])
        IN \A n \in DOMAIN lines : \A id \in DOMAIN compiled :
              LET rule == ruleSet[compiled[id]]
              IN (/\ rule.NegativePattern # Empty
                  /\ MatchString(rule.Pattern, lines[n])
                  /\ MatchString(rule.NegativePattern, lines[n])) =>
                    /\ \A m \in MatchesOn(scanResults[s], n) : m.Rule.ID # id
                    /\ MatchesOn(scanResults[s], n) =
                          ScannerMatches(Without(ruleSet, id), args[s], n, lines[n])

\* C8 witness: a scan returned, for a line on which one rule was vetoed by
\* its exclusion pattern, the Match of another rule
C8_Witness ==
    \E s \in DOMAIN scanResults :
        \E n \in DOMAIN LinesOf(args[s]) : \E id \in DOMAIN compiled :
            LET rule == ruleSet[compiled[id]]
                line == LinesOf(args[s])[n]
            IN /\ MatchString(rule.Pattern, line)
               /\ rule.NegativePattern # Empty
               /\ MatchString(rule.NegativePattern, line)
               /\ \E m \in MatchesOn(scanResults[s], n) : m.Rule.ID # id

\* C9: a Match on a line whose first non-blank character is "#" comes from
\* a rule whose pattern begins with "^#"; every other rule yields no Match
\* on such a line.
C9_CommentLinesOnlyMatchAnchoredRules ==
    \A s \in DOMAIN scanResults :
        LET lines == LinesOf(args[s])
        IN \A k \in DOMAIN scanResults[s] :
              LET m == scanResults[s][k]
              IN /\ m.File = args[s]
                 /\ m.Content = lines[m.Line]
                 /\ HasPrefix(TrimSpace(m.Content), <<"#">>) =>
                       HasPrefix(m.Rule.Pattern, <<"^", "#">>)

\* C9 witness: a scan of a file that holds a comment line in which the
\* pattern of an unanchored rule occurs returned a Match of an anchored rule
\* on a comment line, and none of the unanchored rule
C9_Witness ==
    /\ pc = "scanned"
    /\ \E n \in DOMAIN LinesOf(args[1]) : \E id \in DOMAIN compiled :
          /\ HasPrefix(TrimSpace(LinesOf(args[1])[n]), <<"#">>)
          /\ ~HasPrefix(ruleSet[compiled[id]].Pattern, <<"^", "#">>)
          /\ MatchString(ruleSet[compiled[id]].Pattern, LinesOf(args[1])[n])
    /\ \E m \in Range(scanResults[1]) : HasPrefix(TrimSpace(m.Content), <<"#">>)

\* C10 (as claimed): two runs of ScanFile with the same rules on the same
\* file return the same sequence of Matches.
C10_ScanIsDeterministic ==
    pc = "scanned" => scanResults[1] = scanResults[2]

\* C11: the Matches ScanFile returns for a file carry that file's path and
\* come in non-decreasing line order, and what ScanFiles has collected is the
\* results of the files scanned so far, one block per file, in the order of
\* the input paths.
C11_MatchesInLineAndFileOrder ==
    /\ \A s \in DOMAIN scanResults :
          /\ \A k \in DOMAIN scanResults[s] : scanResults[s][k].File = args[s]
          /\ \A j, k \in DOMAIN scanResults[s] :
                j < k => scanResults[s][j].Line <= scanResults[s][k].Line
    /\ pc \in {"scan", "scanned"} => allMatches = Concat(scanResults)

\* C11 witness: ScanFiles returned after two different files that each
\* yielded a Match
C11_Witness ==
    /\ pc = "scanned"
    /\ Len(args) = 2 /\ args[1] # args[2]
    /\ scanResults[1] # <<>> /\ scanResults[2] # <<>>
    /\ allMatches = scanResults[1] \o scanResults[2]

\* C12: ScanFile returns at most one Match per rule and line; its Content
\* is the full line, its Column the 1-based position of the first character
\* of the leftmost occurrence of the rule's pattern in the line, and its
\* MatchedStr the text of that occurrence, which Content holds at Column.
C12_OneLeftmostMatchPerRuleAndLine ==
    \A s \in DOMAIN scanResults :
        LET lines == LinesOf(args[s])
            res == scanResults[s]
        IN /\ \A j, k \in DOMAIN res :
                 (res[j].Line = res[k].Line /\ res[j].Rule.ID = res[k].Rule.ID) => j = k
           /\ \A k \in DOMAIN res :
                 LET m == res[k]
                     lit == Literal(m.Rule.Pattern)
                 IN /\ m.Content = lines[m.Line]
                    /\ m.Column >= 1
                    /\ OccursAt(m.Content, m.Column - 1, lit)
                    /\ \A i \in 0..(m.Column - 2) : ~OccursAt(m.Content, i, lit)
                    /\ m.MatchedStr = lit
                    /\ m.MatchedStr =
                          SubSeq(m.Content, m.Column, m.Column + Len(m.MatchedStr) - 1)

\* C12 witness: a scan returned the Match of a rule whose pattern occurs
\* twice in the line, and the Match of another rule further right in it
C12_Witness ==
    \E s \in DOMAIN scanResults : \E j, k \in DOMAIN scanResults[s] :
        LET m == scanResults[s][k]
        IN /\ m.Column = 1
           /\ \E i \in 1..Len(m.Content) :
                 OccursAt(m.Content, i, Literal(m.Rule.Pattern))
           /\ scanResults[s][j].Line = m.Line
           /\ scanResults[s][j].Column > 1

\* the Column of the Match that the applied fix f of the file at path is for
ColumnOfFix(path, f) ==
    (CHOOSE m \in Range(allMatches) :
        m.File = path /\ m.Line = f.Line /\ m.Rule.ID = f.RuleID).Column

\* the rule of the applied fix f
RuleOfFix(f) == ruleSet[compiled[f.RuleID]]

\* fixes j and j + 1 of the Result r for the file at path are the two fixes
\* of one line, made by replace rules for Matches that do not overlap, and
\* the second, left one changes the length of the line
TwoFixesOnLine(path, r, j) ==
    /\ j + 1 \in DOMAIN r.Fixes
    /\ r.Fixes[j].Line = r.Fixes[j + 1].Line
    /\ \A k \in DOMAIN r.Fixes : r.Fixes[k].Line = r.Fixes[j].Line => k \in {j, j + 1}
    /\ RuleOfFix(r.Fixes[j]).FixType = FixReplace
    /\ RuleOfFix(r.Fixes[j + 1]).FixType = FixReplace
    /\ ColumnOfFix(path, r.Fixes[j + 1]) + Len(Literal(RuleOfFix(r.Fixes[j + 1]).Pattern))
          <= ColumnOfFix(path, r.Fixes[j])
    /\ Len(r.Fixes[j + 1].Fixed) # Len(r.Fixes[j + 1].Original)

\* the applied fixes of each line are recorded in descending Column order
AppliedRightmostFirst ==
    \A n \in DOMAIN results : \A j, k \in DOMAIN results[n].Fixes :
        (j < k /\ results[n].Fixes[j].Line = results[n].Fixes[k].Line) =>
            ColumnOfFix(args[n], results[n].Fixes[j])
               >= ColumnOfFix(args[n], results[n].Fixes[k])

\* C19: the Matches of a line are applied in descending Column
\* order, and of two non-overlapping Matches of which the left fix changes
\* the length of the line, the text the right fix wrote is in the final line.
C19_RightFixIntact ==
    /\ AppliedRightmostFirst
    /\ \A n \in DOMAIN results : \A j \in DOMAIN results[n].Fixes :
          TwoFixesOnLine(args[n], results[n], j) =>
             Contains(ScanLines(results[n].Content)[results[n].Fixes[j].Line],
                      RuleOfFix(results[n].Fixes[j]).FixTemplate)

\* the Matches handed to FixFile for the file at path
MatchesOfFile(path) == {m \in Range(allMatches) : m.File = path}

\* the fix strategies that fixLine never applies
NeverApplied == {FixSuggest, FixFunction}

\* C20: a Match whose rule has fix strategy suggest or function is never
\* applied: no applied fix is recorded for it, it adds one to the unresolved
\* count (every Match of the file is either an applied fix or one unresolved),
\* and the line keeps the text the applied fixes gave it, the original text
\* when there is none.
C20_SuggestAndFunctionNeverApplied ==
    \A n \in DOMAIN results :
        LET r == results[n]
            orig == LinesOf(args[n])
            out == ScanLines(r.Content)
        IN /\ \A k \in DOMAIN r.Fixes : RuleOfFix(r.Fixes[k]).FixType \notin NeverApplied
           /\ r.UnfixedCount + Len(r.Fixes) = Cardinality(MatchesOfFile(args[n]))
           /\ r.UnfixedCount >=
                 Cardinality({m \in MatchesOfFile(args[n]) : m.Rule.FixType \in NeverApplied})
           /\ Len(out) >= Len(orig)
           /\ \A l \in DOMAIN orig : out[l] = LineAfterFixes(r, orig, l)

\* C20 witness: FixFile processed a line with the Match of a suggest rule and
\* the Match of a function rule and nothing else
C20_Witness ==
    \E n \in DOMAIN results :
        /\ \E m1, m2 \in MatchesOfFile(args[n]) :
              /\ m1.Line = m2.Line
              /\ m1.Rule.FixType = FixSuggest
              /\ m2.Rule.FixType = FixFunction
        /\ results[n].UnfixedCount = 2
        /\ results[n].Fixes = <<>>
        /\ results[n].Content = disk0[args[n]]

\* C18: New fails when the primary or the exclusion pattern of a rule does
\* not compile and nothing is scanned then; a scan is only ever run with
\* rules whose patterns all compiled, and it ends without an error.
C18_MalformedRuleFailsAtConstruction ==
    LET malformed ==
            \E i \in DOMAIN ruleSet :
                \/ ~Compiles(ruleSet[i].Pattern)
                \/ /\ ruleSet[i].NegativePattern # Empty
                   /\ ~Compiles(ruleSet[i].NegativePattern)
    IN /\ (pc # "new" /\ malformed) =>
             /\ pc = "exit"
             /\ err = "creating scanner"
             /\ scanResults = <<>> /\ allMatches = <<>> /\ matches = <<>>
       /\ pc \in {"scan", "scanned"} => ~malformed /\ err = ""
       /\ (pc # "new" /\ ~malformed) => err = ""

\* C18 witness: New failed on a rule whose primary pattern compiles and
\* whose exclusion pattern does not
C18_Witness ==
    /\ pc = "exit"
    /\ err = "creating scanner"
    /\ \A i \in DOMAIN ruleSet : Compiles(ruleSet[i].Pattern)
    /\ \E i \in DOMAIN ruleSet :
          ruleSet[i].NegativePattern # Empty /\ ~Compiles(ruleSet[i].NegativePattern)

\* the rule sets loadRules merges: what LoadBuiltin and LoadFromFile returned
LoadedBuiltin == LoadBuiltin(builtinFiles).rules

LoadedCustom == LoadFromFile(configFile[1]).rules

\* loadRules returned the merge of the builtin rules and the -c rules
Merged == pc # "load" /\ err # "loading rules" /\ configFile # <<>>

DistinctIDs(rs) == \A i, j \in DOMAIN rs : rs[i].ID = rs[j].ID => i = j

\* the definition that comes last among the rules of that ID
LastOf(rs, id) ==
    rs[CHOOSE i \in DOMAIN rs :
          /\ rs[i].ID = id
          /\ \A j \in DOMAIN rs : rs[j].ID = id => j <= i]

\* C13: the merge of source A then source B holds one rule per distinct
\* identifier of A and B; the identifiers stand in the order of their first
\* occurrence in A then B, so one defined in A keeps the position it had in
\* A and a new one is appended in source order; each carries the definition
\* given last, B's when B defines it.
C13_MergeOverridesInPlace ==
    Merged =>
        LET A == LoadedBuiltin
            B == LoadedCustom
            AB == A \o B
            first == {i \in DOMAIN AB : \A j \in 1..(i - 1) : AB[j].ID # AB[i].ID}
        IN /\ Len(ruleSet) = Cardinality({AB[i].ID : i \in DOMAIN AB})
           /\ \A i \in first :
                 ruleSet[Cardinality({j \in first : j <= i})] = LastOf(AB, AB[i].ID)
           /\ DistinctIDs(A) =>
                 \A i \in DOMAIN A :
                    /\ ruleSet[i].ID = A[i].ID
                    /\ ruleSet[i] = IF \E k \in DOMAIN B : B[k].ID = A[i].ID
                                    THEN LastOf(B, A[i].ID) ELSE A[i]

\* C13 witness: the -c file holds a new rule and then another definition of
\* the builtin rule; the merge has the new definition first, in the place
\* of the builtin rule, and the new rule after it
C13_Witness ==
    /\ Merged
    /\ LoadedBuiltin = <<EchoRule>>
    /\ Len(LoadedCustom) = 2
    /\ LoadedCustom[1] = RealpathRule
    /\ LoadedCustom[2].ID = EchoRule.ID /\ LoadedCustom[2] # EchoRule
    /\ ruleSet = <<LoadedCustom[2], RealpathRule>>

FileFails(f) ==
    \/ ~f.readable
    \/ ~f.parses
    \/ \E i \in DOMAIN f.rules : ~validateRule(f.rules[i]).ok

\* C16: loadRules fails exactly when a builtin file or the -c file fails to
\* load, whatever valid rules that file or the other files hold; it returns
\* no rule set then, and the command ends before it constructs a Scanner.
C16_LoadIsAllOrNothing ==
    LET fails == \/ \E k \in DOMAIN builtinFiles : FileFails(builtinFiles[k])
                 \/ configFile # <<>> /\ FileFails(configFile[1])
    IN pc # "load" =>
          /\ fails <=> err = "loading rules"
          /\ fails => /\ pc = "exit"
                      /\ ruleSet = <<>>
                      /\ compiled = <<>>
                      /\ scanResults = <<>>
          /\ (~fails /\ builtinFiles # <<>>) =>
                Len(ruleSet) <= Len(LoadedBuiltin)
                                  + (IF configFile = <<>> THEN 0 ELSE Len(LoadedCustom))

\* C16 witness: loadRules failed on a builtin file whose first rule is valid
\* and whose second rule is not, the other files being valid
C16_Witness ==
    /\ pc = "exit"
    /\ err = "loading rules"
    /\ ruleSet = <<>>
    /\ Len(builtinFiles) = 2
    /\ builtinFiles[1].rules = <<EchoRule, BadRule>>
    /\ ~FileFails(builtinFiles[2])
    /\ configFile # <<>> /\ ~FileFails(configFile[1])

\* what makes a rule acceptable, field by field
Accepts(r) ==
    /\ r.ID # "" /\ r.Name # "" /\ r.Pattern # Empty
    /\ Compiles(r.Pattern)
    /\ r.NegativePattern = Empty \/ Compiles(r.NegativePattern)
    /\ r.ShebangMatch = Empty \/ Compiles(r.ShebangMatch)
    /\ r.Severity \in {"", "error", "warning", "info"}
    /\ r.FixType \in {"", "replace", "suggest", "function", "transform"}

\* C17: a rule is accepted exactly when id, name and pattern are non-empty,
\* each pattern that is present compiles, and severity and fix type are
\* empty or one of their values; an accepted rule is loaded with an empty
\* severity made warning, an empty fix type made suggest, and every other
\* field as it was.
C17_ValidateRuleAcceptsAndDefaults ==
    /\ (pc # "load" /\ Len(builtinFiles) = 1 /\ configFile = <<>>
          /\ Len(builtinFiles[1].rules) = 1) =>
          LET r == builtinFiles[1].rules[1]
          IN /\ err = "" <=> Accepts(r)
             /\ Accepts(r) =>
                   /\ Len(ruleSet) = 1
                   /\ ruleSet[1].Severity =
                         (IF r.Severity = "" THEN "warning" ELSE r.Severity)
                   /\ ruleSet[1].FixType =
                         (IF r.FixType = "" THEN "suggest" ELSE r.FixType)
                   /\ \A f \in DOMAIN r \ {"Severity", "FixType"} : ruleSet[1][f] = r[f]
    /\ (pc # "load" /\ builtinFiles # <<>> /\ err = "") =>
          \A i \in DOMAIN ruleSet :
              /\ Accepts(ruleSet[i])
              /\ ruleSet[i].Severity # "" /\ ruleSet[i].FixType # ""

\* C17 witness: a rule with all three patterns and neither severity nor fix
\* type was loaded as a warning with fix type suggest
C17_Witness ==
    /\ pc # "load" /\ err = ""
    /\ Len(builtinFiles) = 1 /\ Len(builtinFiles[1].rules) = 1
    /\ builtinFiles[1].rules[1].Severity = ""
    /\ builtinFiles[1].rules[1].FixType = ""
    /\ builtinFiles[1].rules[1].NegativePattern # Empty
    /\ builtinFiles[1].rules[1].ShebangMatch # Empty
    /\ builtinFiles[1].rules[1].FixTemplate # Empty
    /\ Len(ruleSet) = 1
    /\ ruleSet[1].Severity = "warning" /\ ruleSet[1].FixType = "suggest"

\* the applied fixes of the Result r that are for the line of the Match m
\* and for Matches to the right of it: fixLine made them before it came to m
FixesBefore(path, r, m) ==
    {k \in DOMAIN r.Fixes :
        r.Fixes[k].Line = m.Line /\ ColumnOfFix(path, r.Fixes[k]) > m.Column}

\* the line as fixLine had it when it came to the Match m
LineBefore(path, r, m) ==
    IF FixesBefore(path, r, m) = {} THEN m.Content
    ELSE r.Fixes[CHOOSE k \in FixesBefore(path, r, m) :
                    \A j \in FixesBefore(path, r, m) : j <= k].Fixed

\* the applied fixes of the Result r that are for the Match m
FixesFor(r, m) ==
    {k \in DOMAIN r.Fixes : r.Fixes[k].Line = m.Line /\ r.Fixes[k].RuleID = m.Rule.ID}

\* C21: a replace Match is recorded as an applied fix, from the current line
\* to the substituted line, when substituting the pattern by the template
\* changes the current line; when it does not, no fix is recorded for it, the
\* line stays as it is and the Match is counted as unresolved.
C21_ReplaceAppliedOnlyWhenLineChanges ==
    \A n \in DOMAIN results : \A m \in MatchesOfFile(args[n]) :
        (/\ m.Rule.FixType = FixReplace
         /\ \A o \in MatchesOfFile(args[n]) :
               (o.Line = m.Line /\ o.Column = m.Column) => o = m) =>
            LET r == results[n]
                cur == LineBefore(args[n], r, m)
                new == ReplaceAllString(m.Rule.Pattern, cur, m.Rule.FixTemplate)
            IN IF new # cur
               THEN \E k \in DOMAIN r.Fixes :
                       /\ FixesFor(r, m) = {k}
                       /\ r.Fixes[k].Original = cur
                       /\ r.Fixes[k].Fixed = new
               ELSE /\ FixesFor(r, m) = {}
                    /\ r.UnfixedCount >= 1
                    /\ r.FixedCount + r.UnfixedCount
                          = Cardinality(MatchesOfFile(args[n]))
                    /\ \A k \in DOMAIN r.Fixes : r.Fixes[k].Fixed # r.Fixes[k].Original

\* C21 witness: the fix of a Match further right took away the text a
\* replace rule matched, and that rule's Match was left unresolved
C21_Witness ==
    \E n \in DOMAIN results : \E m \in MatchesOfFile(args[n]) :
        /\ m.Rule.FixType = FixReplace
        /\ FixesBefore(args[n], results[n], m) # {}
        /\ FixesFor(results[n], m) = {}
        /\ MatchString(m.Rule.Pattern, m.Content)
        /\ ~MatchString(m.Rule.Pattern, LineBefore(args[n], results[n], m))
        /\ results[n].FixedCount = 1 /\ results[n].UnfixedCount = 1

Quotes == {"'", "\""}

\* the grep -P invocations of a line: the offset each starts at and its quote
Invocations(line) ==
    {iq \in (0..Len(line)) \X Quotes : GrepMatchAt(line, iq[1], iq[2]) # NoGrep}

\* the pattern uses a feature that has no portable equivalent: a word
\* boundary, a lookahead or lookbehind, \K, or a backreference
UsesUnportableFeature(pattern) ==
    \/ \E f \in { <<"\\", "b">>, <<"\\", "B">>, <<"\\", "K">>, <<"(", "?", "=">>,
                  <<"(", "?", "!">>, <<"(", "?", "<", "=">>, <<"(", "?", "<", "!">> } :
          Contains(pattern, f)
    \/ \E k \in 1..(Len(pattern) - 1) :
          pattern[k] = "\\" /\ pattern[k + 1] \in {"1", "2", "3", "4", "5", "6", "7", "8", "9"}

\* the line with each invocation converted by itself: rewritten to grep -E
\* with its own pattern converted, or left as it is when that pattern uses
\* an unportable feature; the text between the invocations is kept
RECURSIVE ConvertedEach(_, _)
ConvertedEach(line, i) ==
    IF i >= Len(line) THEN Empty
    ELSE LET hits == {q \in Quotes : GrepMatchAt(line, i, q) # NoGrep}
         IN IF hits = {} THEN <<line[i + 1]>> \o ConvertedEach(line, i + 1)
            ELSE LET q == CHOOSE q \in hits : TRUE
                     g == GrepMatchAt(line, i, q)
                 IN (IF UsesUnportableFeature(g[5]) THEN SubSeq(line, i + 1, g[1])
                     ELSE NewGrep(q, g))
                    \o ConvertedEach(line, g[1])

\* the Matches of transform rules that FixFile was given for its n-th file
TransformMatches(n) == {m \in MatchesOfFile(args[n]) : m.Rule.FixType = FixTransform}

\* the line of the Match m in the Content of the Result r
LineOut(r, m) == ScanLines(r.Content)[m.Line]

\* C22: for a line with one grep -P invocation whose quoted pattern uses a
\* feature without a portable equivalent (a word boundary, a lookahead or
\* lookbehind, \K, a backreference) the transform declines: the line is
\* unchanged and the Match is unresolved, not applied.
C22_UnportablePatternDeclined ==
    \A n \in DOMAIN results : \A m \in TransformMatches(n) :
        (/\ Cardinality(Invocations(m.Content)) = 1
         /\ \E iq \in Invocations(m.Content) :
               UsesUnportableFeature(GrepMatchAt(m.Content, iq[1], iq[2])[5])) =>
            /\ LineOut(results[n], m) = m.Content
            /\ FixesFor(results[n], m) = {}
            /\ results[n].UnfixedCount >= 1

\* C23: for a line with one grep -P invocation whose quoted pattern uses no
\* such feature the transform rewrites the invocation to grep -E, the P of
\* the flags made E and the character classes of the pattern replaced,
\* leaves the rest of the line as it is, and records one applied fix.
C23_PortablePatternConverted ==
    \A n \in DOMAIN results : \A m \in TransformMatches(n) :
        (/\ Cardinality(Invocations(m.Content)) = 1
         /\ \A iq \in Invocations(m.Content) :
               ~UsesUnportableFeature(GrepMatchAt(m.Content, iq[1], iq[2])[5])) =>
            /\ LineOut(results[n], m) = ConvertedEach(m.Content, 0)
            /\ Cardinality(FixesFor(results[n], m)) = 1
            /\ \A k \in FixesFor(results[n], m) :
                  /\ results[n].Fixes[k].Original = m.Content
                  /\ results[n].Fixes[k].Fixed = ConvertedEach(m.Content, 0)

\* C30: on a line with two grep -P invocations with different quoted
\* patterns each invocation is converted with its own pattern, and one whose
\* pattern uses an unportable feature is not rewritten.
C30_EachInvocationConvertedByItself ==
    \A n \in DOMAIN results : \A m \in TransformMatches(n) :
        (/\ Cardinality(Invocations(m.Content)) = 2
         /\ \A a, b \in Invocations(m.Content) :
               a # b => GrepMatchAt(m.Content, a[1], a[2])[5]
                           # GrepMatchAt(m.Content, b[1], b[2])[5]) =>
            LineOut(results[n], m) = ConvertedEach(m.Content, 0)

\* C24: in check-only mode the exit code is 0 when no issue is reported, 1
\* when a reported issue has severity error, and 2 when issues are reported
\* and none of them has severity error.
C24_CheckExitCode ==
    (pc = "exit" /\ ~write /\ outputPath = <<>> /\ err = "") =>
        exitCode = (IF allMatches = <<>> THEN 0
                    ELSE IF \E k \in DOMAIN allMatches :
                               allMatches[k].Rule.Severity = "error" THEN 1
                    ELSE 2)

\* the place of a severity in the order info < warning < error
Rank == [sev \in {"info", "warning", "error"} |->
            IF sev = "info" THEN 0 ELSE IF sev = "warning" THEN 1 ELSE 2]

\* does FilterBySeverity keep the Match m
Kept(m) == Rank[m.Rule.Severity] >= Rank[minSeverity]

\* C26: FilterBySeverity returns the Matches of the list ScanFiles returned
\* whose rule severity is at or above the minimum in the order
\* info < warning < error, in their order in that list, and that list, the
\* per-file results it was built from, is as it was.
C26_FilterKeepsAtOrAboveMinimum ==
    pc \in {"report", "fix", "exit"} /\ err = "" =>
        /\ allMatches = SelectSeq(Concat(scanResults), Kept)
        /\ Len(scanResults) = Len(args)
        /\ \A s \in DOMAIN scanResults : \A k \in DOMAIN scanResults[s] :
              scanResults[s][k].File = args[s]

\* C26 witness: with --severity=warning the filter dropped an info Match and
\* kept a warning Match and an error Match
C26_Witness ==
    /\ pc = "report"
    /\ minSeverity = SeverityWarning
    /\ Len(allMatches) = 2
    /\ Len(Concat(scanResults)) = 3
    /\ \E k \in DOMAIN allMatches : allMatches[k].Rule.Severity = SeverityWarning
    /\ \E k \in DOMAIN allMatches : allMatches[k].Rule.Severity = SeverityError

\* every issue reported for the n-th file was fixed, and the rewritten file
\* passed validation
AllFixedAndValid(n) ==
    /\ ~results[n].ValidationErr
    /\ \A m \in MatchesOfFile(args[n]) : FixesFor(results[n], m) # {}

SuppliedInFile(n) ==
    {k \in DOMAIN allMatches :
        /\ allMatches[k].File = args[n]
        /\ allMatches[k].Line \in 1..Len(LinesOf(args[n]))}

\* C28: FixedCount is the number of entries of Fixes, and FixedCount plus
\* UnfixedCount is the number of the supplied Matches whose line is in the
\* file: each of these is counted once, applied or unresolved, and a Match
\* for a line the file does not have is not counted.
C28_EveryMatchCountedOnce ==
    \A n \in DOMAIN results :
        /\ results[n].FixedCount = Len(results[n].Fixes)
        /\ results[n].FixedCount + results[n].UnfixedCount
              = Cardinality(SuppliedInFile(n))

\* C28 witness: FixFile was given a Match that it applied and a Match for a
\* line after the last line of the file
C28_Witness ==
    /\ pc = "exit"
    /\ Len(results) = 1
    /\ Len(allMatches) = 2
    /\ Cardinality(SuppliedInFile(1)) = 1
    /\ results[1].FixedCount = 1
    /\ results[1].UnfixedCount = 0

\* C29: when FixFile applied no fix to a file, the Content it returns is
\* the original content of the file, byte for byte, also when the last line
\* of the file has no newline after it.
C29_UnfixedContentIsOriginal ==
    \A n \in DOMAIN results :
        results[n].FixedCount = 0 => results[n].Content = disk0[args[n]]

\* the Matches a ScanFile call on the file at path returns when it runs
\* alone on a Scanner made of the rule set
AloneMatches(path) ==
    UNION {ScannerMatches(ruleSet, path, n, LinesOf(path)[n]) :
              n \in {k \in DOMAIN LinesOf(path) : TrimSpace(LinesOf(path)[k]) # Empty}}

\* C27: while ScanFile calls for different files run concurrently on one
\* Scanner, the rules and the compiled patterns of the Scanner stay as New
\* made them, and under every interleaving a call returns the set of Matches
\* it returns when it runs alone.
C27_ConcurrentScansAreIndependent ==
    threads # <<>> =>
        /\ ruleSet = CheckRulePool
        /\ compiled = NewCompiled(CheckRulePool)
        /\ \A t \in DOMAIN threads :
              threads[t].done =>
                 Range(threads[t].matches) = AloneMatches(threads[t].path)

\* C27 witness: two calls for different files ran on one Scanner and both
\* returned Matches
C27_Witness ==
    /\ Len(threads) = 2
    /\ threads[1].path # threads[2].path
    /\ threads[1].done /\ threads[2].done
    /\ threads[1].matches # <<>> /\ threads[2].matches # <<>>
    /\ Range(threads[1].matches) # Range(threads[2].matches)

====
